---- MODULE Spec2Model ----
(***************************************************************************)
(* Runtime & model provisioning of rembg-rs: the execution plan resolver,  *)
(* the cache store, the download engine, ensureBackend and the backend     *)
(* init guard, modelled as state machines over one abstract file system.   *)
(***************************************************************************)
EXTENDS Integers, Sequences, FiniteSets, TLC

VARIABLES
    os,            \* env::consts::OS of the build
    arch,          \* env::consts::ARCH of the build
    dirs,          \* directories that exist under <cache>/onnxruntime and <cache>/models
    files,         \* regular files: path -> content (a sequence of chunks)
    net,           \* network requests made so far, in order
    asked,         \* questions printed on the terminal so far (prompt_yes_no reading stdin)
    ORT_MAIN_LIB,  \* the OnceLock<PathBuf> of runtime.rs
    committed,     \* libraries loaded and committed into the process, in order
    ig,            \* per thread: the init_ort call it is in
    dl,            \* per thread: the download_to_path_with_progress call it is in
    en,            \* per thread: the ensure_onnxruntime* call it is in
    pl,            \* the last plan resolution: its inputs and what it returned
    rq,            \* per thread: the request (CLI run or remove_background_bytes) it is in
    call           \* the last call of a pure function: its arguments and what it returned

vars == <<os, arch, dirs, files, net, asked, ORT_MAIN_LIB, committed, ig, dl, en, pl, rq, call>>

(***************************************************************************)
(* Bounds of the model.                                                    *)
(***************************************************************************)
NumThreads == 2      \* worker threads (spawn_blocking tasks) that may run at once
MaxCalls == 3        \* init_ort calls of one thread
MaxTries == 2        \* runs of one download or of one ensureBackend (a failed or killed run is retried)

Threads == 1..NumThreads

None == "None"
\* Option<PathBuf>::None; a path is a pair, so the empty tuple is no path.
NoPath == <<>>
Ok(v) == [ok |-> TRUE, val |-> v]
Err(e) == [ok |-> FALSE, err |-> e]

(***************************************************************************)
(* Platform and request vocabulary.                                        *)
(***************************************************************************)
OSes == {"windows", "linux", "macos", "freebsd"}
Arches == {"x86_64", "aarch64", "x86"}

Devices == {"Cpu", "Gpu", "Auto"}
GpuBackends == {"Auto", "Directml", "Cuda"}
PreferredEp == {"DirectML", "Cuda"}

Packages == {"onnxruntime", "onnxruntime-directml", "onnxruntime-gpu"}
VersionNames == {"1.9.0", "1.10.0"}

Plan(package, ep, allow) == [runtime_package |-> package, ep |-> ep, allow_download |-> allow]

(***************************************************************************)
(* The file system.  A directory is a tuple of path segments below the     *)
(* cache root; a file is <<directory, file name>>.                         *)
(***************************************************************************)
PkgDir(package) == <<package>>
VerDir(package, version) == <<package, version>>
LibDir(vdir) == Append(vdir, "lib")
FilePath(dir, name) == <<dir, name>>

EmptyFs == [p \in {} |-> <<>>]
OneFile(p, content) == [q \in {p} |-> content]
Exists(fs, p) == p \in DOMAIN fs
RemoveFile(fs, p) == [q \in DOMAIN fs \ {p} |-> fs[q]]
WriteFile(fs, p, content) == [q \in DOMAIN fs \cup {p} |-> IF q = p THEN content ELSE fs[q]]
FilesIn(fs, dir) == {p \in DOMAIN fs : p[1] = dir}

\* A file name: its stem and its extension (the part after the last dot).
N(stem, ext) == [stem |-> stem, ext |-> ext]

\* Path::with_extension.
with_extension(p, ext) == FilePath(p[1], N(p[2].stem, ext))

\* The names a library file in lib/ can have in this model.
MainPreferNames ==
    {N("onnxruntime", "dll"), N("libonnxruntime", "dylib"), N("libonnxruntime", "so")}
MainFallbackNames == {N("libonnxruntime.so", "1"), N("libonnxruntime.1", "dylib")}
AuxNames ==
    {N("onnxruntime_providers_shared", "dll"), N("libonnxruntime_providers_shared", "so")}
LibNames == MainPreferNames \cup MainFallbackNames \cup AuxNames

\* runtime.rs find_main_lib, the `prefer` match.
PreferName(o) ==
    CASE o = "windows" -> N("onnxruntime", "dll")
      [] o = "macos" -> N("libonnxruntime", "dylib")
      [] OTHER -> N("libonnxruntime", "so")

\* runtime.rs find_main_lib, the `ok` match of the directory scan, on the
\* names above (the code lower-cases the name first; these have no capitals):
\* windows: the name is onnxruntime.dll; macos: it starts with libonnxruntime
\* and ends with .dylib; otherwise: it starts with libonnxruntime.so.
ScanMatches(o, name) ==
    CASE o = "windows" -> name = N("onnxruntime", "dll")
      [] o = "macos" ->
            name.ext = "dylib" /\ name.stem \in {"libonnxruntime", "libonnxruntime.1"}
      [] OTHER ->
            \/ (name.stem = "libonnxruntime" /\ name.ext = "so")
            \/ name.stem = "libonnxruntime.so"

\* The candidates of the scan that are not smaller than any other.
LargestMatches(fs, o, lib_dir) ==
    LET cand == {p \in FilesIn(fs, lib_dir) : ScanMatches(o, p[2])} IN
    {p \in cand : \A q \in cand : Len(fs[q]) <= Len(fs[p])}

\* runtime.rs find_main_lib: Some(path) or None.  With the names above at
\* most one file of a directory passes the scan once the preferred name is
\* absent, so `best` never has to break a tie between equally large files.
find_main_lib(fs, ds, o, lib_dir) ==
    LET p == FilePath(lib_dir, PreferName(o)) IN
    IF Exists(fs, p) THEN p
    ELSE IF lib_dir \notin ds THEN NoPath
    ELSE LET best == LargestMatches(fs, o, lib_dir) IN
         IF best = {} THEN NoPath ELSE CHOOSE b \in best : TRUE

\* runtime.rs has_any_cached_runtime.
has_any_cached_runtime(fs, ds, o, package) ==
    IF PkgDir(package) \notin ds THEN FALSE
    ELSE \E v \in VersionNames :
            /\ VerDir(package, v) \in ds
            /\ find_main_lib(fs, ds, o, LibDir(VerDir(package, v))) # NoPath

(***************************************************************************)
(* Execution plan resolver.                                                *)
(***************************************************************************)
\* Mutant: the CUDA arm forgets the architecture on Windows.
CudaSupported_NoArch(o, a) ==
    \/ o = "windows"
    \/ (o = "linux" /\ (a = "x86_64" \/ a = "aarch64"))

\* The `ok` of the CUDA arm: the platform matrix of the CUDA package.
CudaSupported(o, a) ==
    \/ (o = "windows" /\ a = "x86_64")
    \/ (o = "linux" /\ (a = "x86_64" \/ a = "aarch64"))

\* Mutant: Auto on Windows looks for a cached CUDA package first.
ResolveBackend_CudaFirst(fs, ds, o, gpu_backend) ==
    IF gpu_backend = "Auto"
    THEN CASE o = "windows" ->
                IF has_any_cached_runtime(fs, ds, o, "onnxruntime-gpu") THEN "Cuda"
                ELSE "Directml"
           [] o = "linux" -> "Cuda"
           [] OTHER -> "Auto"
    ELSE gpu_backend

\* The `backend` match shared by both resolvers.
ResolveBackend(fs, ds, o, gpu_backend) ==
    IF gpu_backend = "Auto"
    THEN CASE o = "windows" ->
                IF has_any_cached_runtime(fs, ds, o, "onnxruntime-directml") THEN "Directml"
                ELSE IF has_any_cached_runtime(fs, ds, o, "onnxruntime-gpu") THEN "Cuda"
                ELSE "Directml"
           [] o = "linux" -> "Cuda"
           [] OTHER -> "Auto"
    ELSE gpu_backend

\* The final `match backend` shared by both resolvers.
\* Mutant: the DirectML arm names the plain CPU package.
BackendPlan_CpuPackage(o, a, backend, allow_download) ==
    CASE backend = "Directml" ->
            IF o # "windows" THEN Err("DirectML backend is only supported on Windows")
            ELSE Ok(Plan("onnxruntime", "DirectML", allow_download))
      [] backend = "Cuda" ->
            IF ~CudaSupported(o, a) THEN Err("CUDA backend not supported on this platform")
            ELSE Ok(Plan("onnxruntime-gpu", "Cuda", allow_download))
      [] OTHER -> Err("GPU backend not supported on this platform")

BackendPlan(o, a, backend, allow_download) ==
    CASE backend = "Directml" ->
            IF o # "windows" THEN Err("DirectML backend is only supported on Windows")
            ELSE Ok(Plan("onnxruntime-directml", "DirectML", allow_download))
      [] backend = "Cuda" ->
            IF ~CudaSupported(o, a) THEN Err("CUDA backend not supported on this platform")
            ELSE Ok(Plan("onnxruntime-gpu", "Cuda", allow_download))
      [] OTHER -> Err("GPU backend not supported on this platform")

\* Mutant: the CPU arm selects DirectML on Windows only when downloads are
\* permitted, without looking at the cache.
CpuPlan_NoCacheLookup(fs, ds, o, gpu_backend, allow_download) ==
    IF o = "windows" /\ gpu_backend # "Cuda" /\ allow_download
    THEN Ok(Plan("onnxruntime-directml", None, allow_download))
    ELSE Ok(Plan("onnxruntime", None, allow_download))

\* The CPU arm of plan_noninteractive.
CpuPlan(fs, ds, o, gpu_backend, allow_download) ==
    IF /\ o = "windows"
       /\ gpu_backend # "Cuda"
       /\ (allow_download \/ has_any_cached_runtime(fs, ds, o, "onnxruntime-directml"))
    THEN Ok(Plan("onnxruntime-directml", None, allow_download))
    ELSE Ok(Plan("onnxruntime", None, allow_download))

\* Mutant: the CPU arm selects the plain CPU package on every OS.
plan_noninteractive_PlainCpu(fs, ds, o, a, device, gpu_backend, allow_download) ==
    IF device = "Cpu"
    THEN Ok(Plan("onnxruntime", None, allow_download))
    ELSE BackendPlan(o, a, ResolveBackend(fs, ds, o, gpu_backend), allow_download)

\* runtime.rs plan_noninteractive (core.rs maps its Device to Cpu or Gpu only).
plan_noninteractive(fs, ds, o, a, device, gpu_backend, allow_download) ==
    IF device = "Cpu"
    THEN CpuPlan(fs, ds, o, gpu_backend, allow_download)
    ELSE BackendPlan(o, a, ResolveBackend(fs, ds, o, gpu_backend), allow_download)

\* What the user may type at a prompt, and a failing read of stdin.
Answers == {"y", "Yes", "n", ""}
ReadError == "read error"
Replies == Answers \cup {ReadError}

\* s.trim().to_ascii_lowercase() on the answers above.
TrimLower(s) == IF s = "Yes" THEN "yes" ELSE s

\* Mutant: the question is asked whatever assume_yes says.
prompt_yes_no_AlwaysAsk(assume_yes, reply) ==
    IF reply = ReadError THEN [res |-> Err("read user input"), asked |-> 1]
    ELSE [res |-> Ok(TrimLower(reply) \in {"y", "yes"}), asked |-> 1]

\* runtime.rs prompt_yes_no: the result, and whether the question was
\* printed and stdin read.
prompt_yes_no(assume_yes, reply) ==
    IF assume_yes THEN [res |-> Ok(TRUE), asked |-> 0]
    ELSE IF reply = ReadError THEN [res |-> Err("read user input"), asked |-> 1]
    ELSE [res |-> Ok(TrimLower(reply) \in {"y", "yes"}), asked |-> 1]

\* Mutant: accepting the prompt does not set allow_download.
WantGpu_AskAgain(fs, ds, o, device, yes, reply) ==
    CASE device = "Cpu" -> [res |-> Ok(FALSE), asked |-> 0, allow |-> yes]
      [] device = "Gpu" -> [res |-> Ok(TRUE), asked |-> 0, allow |-> yes]
      [] OTHER ->
            IF o # "windows" THEN [res |-> Ok(FALSE), asked |-> 0, allow |-> yes]
            ELSE IF \/ has_any_cached_runtime(fs, ds, o, "onnxruntime-directml")
                    \/ has_any_cached_runtime(fs, ds, o, "onnxruntime-gpu")
            THEN [res |-> Ok(TRUE), asked |-> 0, allow |-> yes]
            ELSE LET p == prompt_yes_no(yes, reply) IN
                 [res |-> p.res, asked |-> p.asked, allow |-> yes]

\* The `want_gpu` match of resolve_plan: the prompt's outcome with want_gpu
\* and allow_download as they stand after it.
WantGpu(fs, ds, o, device, yes, reply) ==
    CASE device = "Cpu" -> [res |-> Ok(FALSE), asked |-> 0, allow |-> yes]
      [] device = "Gpu" -> [res |-> Ok(TRUE), asked |-> 0, allow |-> yes]
      [] OTHER ->
            IF o # "windows" THEN [res |-> Ok(FALSE), asked |-> 0, allow |-> yes]
            ELSE IF \/ has_any_cached_runtime(fs, ds, o, "onnxruntime-directml")
                    \/ has_any_cached_runtime(fs, ds, o, "onnxruntime-gpu")
            THEN [res |-> Ok(TRUE), asked |-> 0, allow |-> yes]
            ELSE LET p == prompt_yes_no(yes, reply) IN
                 [res |-> p.res, asked |-> p.asked,
                  allow |-> IF p.res.ok /\ p.res.val THEN TRUE ELSE yes]

\* runtime.rs resolve_plan: the plan or the error, and the questions asked.
resolve_plan(fs, ds, o, a, device, gpu_backend, yes, reply) ==
    LET w == WantGpu(fs, ds, o, device, yes, reply) IN
    IF ~w.res.ok THEN [res |-> w.res, asked |-> w.asked]
    ELSE IF ~w.res.val THEN [res |-> Ok(Plan("onnxruntime", None, w.allow)), asked |-> w.asked]
    ELSE [res |-> BackendPlan(o, a, ResolveBackend(fs, ds, o, gpu_backend), w.allow),
          asked |-> w.asked]

(***************************************************************************)
(* The artifacts of the world: wheel archives and what they hold.          *)
(***************************************************************************)
\* runtime.rs normalize_os / normalize_arch.
normalize_os(o) == IF o \in {"windows", "macos"} THEN o ELSE "linux"
normalize_arch(a) == a

\* A zip entry: the directories of its name (separators already split, so
\* replace('\\', "/") is built in), its file name, whether it is a directory
\* entry, and its bytes.
Entry(dir, file, is_dir, data) == [dir |-> dir, file |-> file, is_dir |-> is_dir, data |-> data]

MainName(o) ==
    CASE o = "windows" -> N("onnxruntime", "dll")
      [] o = "macos" -> N("libonnxruntime.1", "dylib")
      [] OTHER -> N("libonnxruntime.so", "1")

AuxName(o) ==
    IF o = "windows" THEN N("onnxruntime_providers_shared", "dll")
    ELSE N("libonnxruntime_providers_shared", "so")

MainEntry(o) == Entry(<<"onnxruntime", "capi">>, MainName(o), FALSE, <<1, 1>>)
AuxEntry(o) == Entry(<<"onnxruntime", "capi">>, AuxName(o), FALSE, <<2>>)

\* Entries the extractor must leave alone: a source file below capi/, and a
\* library that is not below a capi/ directory.
OtherEntries ==
    << Entry(<<"onnxruntime", "capi">>, N("version", "py"), FALSE, <<3>>),
       Entry(<<"capi">>, N("onnxruntime", "dll"), FALSE, <<4>>) >>

\* The archives a package index can serve, by the body of the file.  A
\* "full" wheel holds the main library of its OS; a "nomain" wheel only
\* auxiliary libraries.
WheelBody(o, full) ==
    CASE o = "windows" -> IF full THEN <<10, 11>> ELSE <<16, 17>>
      [] o = "macos" -> IF full THEN <<12, 13>> ELSE <<18, 19>>
      [] OTHER -> IF full THEN <<14, 15>> ELSE <<20, 21>>

WheelEntries(o, full) ==
    <<Entry(<<"onnxruntime">>, N("capi", ""), TRUE, <<>>)>>
        \o (IF full THEN <<MainEntry(o)>> ELSE <<>>)
        \o <<AuxEntry(o)>> \o OtherEntries

WheelOSes == {"windows", "macos", "linux"}

\* An archive in which two library entries below capi/ have one basename.
TwinBody(o) ==
    CASE o = "windows" -> <<22, 23>>
      [] o = "macos" -> <<24, 25>>
      [] OTHER -> <<26, 27>>

TwinEntries(o) ==
    <<Entry(<<"onnxruntime">>, N("capi", ""), TRUE, <<>>),
      MainEntry(o),
      Entry(<<"onnxruntime", "capi", "extra">>, MainName(o), FALSE, <<5>>),
      AuxEntry(o)>> \o OtherEntries

\* zip::ZipArchive::new on a file's content: the entries, or an error for
\* a file that is no complete archive.
ZipEntries(content) ==
    IF \E o \in WheelOSes, full \in BOOLEAN : content = WheelBody(o, full)
    THEN LET w == CHOOSE w \in WheelOSes \X BOOLEAN : content = WheelBody(w[1], w[2]) IN
         Ok(WheelEntries(w[1], w[2]))
    ELSE IF \E o \in WheelOSes : content = TwinBody(o)
    THEN Ok(TwinEntries(CHOOSE o \in WheelOSes : content = TwinBody(o)))
    ELSE Err("open zip archive")

\* The file name of the wheel of a platform, as the index lists it.
WheelName(o, a) ==
    CASE o = "windows" /\ a = "x86_64" -> N("ort-win_amd64", "whl")
      [] o = "windows" /\ a = "aarch64" -> N("ort-win_arm64", "whl")
      [] o = "linux" /\ a = "x86_64" -> N("ort-manylinux_x86_64", "whl")
      [] o = "linux" /\ a = "aarch64" -> N("ort-manylinux_aarch64", "whl")
      [] o = "macos" /\ a = "x86_64" -> N("ort-macosx_x86_64", "whl")
      [] o = "macos" /\ a = "aarch64" -> N("ort-macosx_arm64", "whl")

\* The platforms the index has a wheel for (pypi.rs wheel_matches).
HasWheel(o, a) == a \in {"x86_64", "aarch64"}

\* runtime.rs is_runtime_lib_file on an entry's whole name, lower-cased: it
\* ends with .dll, .so or .dylib, or contains ".so." (no directory of the
\* model's entries does, so that is the file name's stem ending in .so).
is_runtime_lib_file(e) ==
    \/ e.file.ext \in {"dll", "so", "dylib"}
    \/ e.file.stem \in {"libonnxruntime.so"}

\* name.contains("/capi/"): a directory of the name, not the first, is capi.
ContainsCapi(e) == \E i \in 2..Len(e.dir) : e.dir[i] = "capi"

\* The entries extract_ort_libs_from_wheel does not skip for their name.
Relevant(e) == ~e.is_dir /\ ContainsCapi(e) /\ is_runtime_lib_file(e)

(***************************************************************************)
(* Version comparator.                                                     *)
(***************************************************************************)
\* The characters of a version directory's name.
Chars(v) ==
    CASE v = "1.9.0" -> <<"1", ".", "9", ".", "0">>
      [] v = "1.10.0" -> <<"1", ".", "1", "0", ".", "0">>
      [] v = "1.10" -> <<"1", ".", "1", "0">>
      [] v = "1.09.0" -> <<"1", ".", "0", "9", ".", "0">>
      [] v = "1.9.0.0" -> <<"1", ".", "9", ".", "0", ".", "0">>
      [] v = "1.10.0rc1" -> <<"1", ".", "1", "0", ".", "0", "r", "c", "1">>
      [] v = "1.10.0.post1" -> <<"1", ".", "1", "0", ".", "0", ".", "p", "o", "s", "t", "1">>
      [] v = "2" -> <<"2">>
      [] v = "rc1" -> <<"r", "c", "1">>
      [] v = "" -> <<>>
      [] v = "99999999999999999999.5" ->
            <<"9", "9", "9", "9", "9", "9", "9", "9", "9", "9",
              "9", "9", "9", "9", "9", "9", "9", "9", "9", "9", ".", "5">>

DigitChars == <<"0", "1", "2", "3", "4", "5", "6", "7", "8", "9">>
IsDigit(c) == \E i \in 1..10 : DigitChars[i] = c
DigitValue(c) == (CHOOSE i \in 1..10 : DigitChars[i] = c) - 1
LetterChars ==
    <<"a", "b", "c", "d", "e", "f", "g", "h", "i", "j", "k", "l", "m",
      "n", "o", "p", "q", "r", "s", "t", "u", "v", "w", "x", "y", "z">>
\* The byte of a character: '-' and '.' sort below the digits, the digits
\* below '_', and '_' below the lower-case letters.
CharCodes ==
    [c \in {".", "-", "_"} \cup {DigitChars[i] : i \in 1..10} \cup {LetterChars[i] : i \in 1..26} |->
        IF c = "." THEN 46
        ELSE IF c = "-" THEN 45
        ELSE IF c = "_" THEN 95
        ELSE IF IsDigit(c) THEN 48 + DigitValue(c)
        ELSE 96 + (CHOOSE i \in 1..26 : LetterChars[i] = c)]
CharCode(c) == CharCodes[c]

RECURSIVE SplitDots(_, _)
\* s.split('.'): `cur` is the part being read.
SplitDots(chars, cur) ==
    IF chars = <<>> THEN <<cur>>
    ELSE IF Head(chars) = "." THEN <<cur>> \o SplitDots(Tail(chars), <<>>)
    ELSE SplitDots(Tail(chars), Append(cur, Head(chars)))

RECURSIVE LeadingDigits(_)
LeadingDigits(part) ==
    IF part = <<>> \/ ~IsDigit(Head(part)) THEN <<>>
    ELSE <<Head(part)>> \o LeadingDigits(Tail(part))

RECURSIVE ParseU64(_, _)
ParseU64(digits, acc) ==
    IF digits = <<>> THEN acc
    ELSE ParseU64(Tail(digits), acc * 10 + DigitValue(Head(digits)))

RECURSIVE StripZeros(_)
StripZeros(digits) ==
    IF digits # <<>> /\ Head(digits) = "0" THEN StripZeros(Tail(digits)) ELSE digits

\* The digits of u64::MAX.
U64MaxDigits ==
    <<"1", "8", "4", "4", "6", "7", "4", "4", "0", "7",
      "3", "7", "0", "9", "5", "5", "1", "6", "1", "5">>

RECURSIVE DigitsLeq(_, _)
\* x <= y for two digit strings of one length.
DigitsLeq(x, y) ==
    IF x = <<>> THEN TRUE
    ELSE IF Head(x) # Head(y) THEN DigitValue(Head(x)) < DigitValue(Head(y))
    ELSE DigitsLeq(Tail(x), Tail(y))

\* digits.parse::<u64>() is Ok: the value fits 64 bits.
FitsU64(digits) ==
    LET d == StripZeros(digits) IN
    \/ Len(d) < Len(U64MaxDigits)
    \/ Len(d) = Len(U64MaxDigits) /\ DigitsLeq(d, U64MaxDigits)

RECURSIVE ParseParts(_)
ParseParts(parts) ==
    IF parts = <<>> THEN <<>>
    ELSE LET digits == LeadingDigits(Head(parts)) IN
         IF digits = <<>> \/ ~FitsU64(digits) THEN <<>>
         ELSE <<ParseU64(digits, 0)>> \o ParseParts(Tail(parts))

\* runtime.rs parse_version_prefix.
parse_version_prefix(v) == ParseParts(SplitDots(Chars(v), <<>>))

CmpInt(x, y) == IF x < y THEN -1 ELSE IF x > y THEN 1 ELSE 0

RECURSIVE CmpChars(_, _)
\* str::cmp: byte-wise lexicographic.
CmpChars(x, y) ==
    IF x = <<>> /\ y = <<>> THEN 0
    ELSE IF x = <<>> THEN -1
    ELSE IF y = <<>> THEN 1
    ELSE IF CharCode(Head(x)) # CharCode(Head(y))
         THEN CmpInt(CharCode(Head(x)), CharCode(Head(y)))
    ELSE CmpChars(Tail(x), Tail(y))

RECURSIVE CmpPrefix(_, _, _, _)
CmpPrefix(pa, pb, i, n) ==
    IF i > n THEN 0
    ELSE LET av == IF i <= Len(pa) THEN pa[i] ELSE 0
             bv == IF i <= Len(pb) THEN pb[i] ELSE 0
         IN IF av # bv THEN CmpInt(av, bv) ELSE CmpPrefix(pa, pb, i + 1, n)

Max(x, y) == IF x >= y THEN x ELSE y

\* Mutant: the names are compared as strings only.
cmp_versions_Lexical(a, b) == CmpChars(Chars(a), Chars(b))

\* runtime.rs cmp_versions: -1 (Less), 0 (Equal), 1 (Greater).
cmp_versions(a, b) ==
    LET pa == parse_version_prefix(a)
        pb == parse_version_prefix(b)
        c == CmpPrefix(pa, pb, 1, Max(Len(pa), Len(pb)))
    IN IF c # 0 THEN c ELSE CmpChars(Chars(a), Chars(b))

RECURSIVE SortDescending(_)
\* versions.sort_by(|a, b| cmp_version_dir_names(b, a)): highest first.
SortDescending(vs) ==
    IF vs = {} THEN <<>>
    ELSE LET top == CHOOSE v \in vs : \A w \in vs : cmp_versions(v, w) >= 0 IN
         <<top>> \o SortDescending(vs \ {top})

(***************************************************************************)
(* Artifact extractor and cache discovery.  An operation that writes       *)
(* returns its result with the file system it leaves.                      *)
(***************************************************************************)
\* fs::create_dir_all.
create_dir_all(ds, d) == ds \cup {SubSeq(d, 1, k) : k \in 1..Len(d)}

RECURSIVE ExtractEntries_Overwrite(_, _, _, _)
\* Mutant: the loop writes an entry whether or not its file exists.
ExtractEntries_Overwrite(fs, lib_dir, entries, i) ==
    IF i > Len(entries) THEN fs
    ELSE LET e == entries[i]
             dst == FilePath(lib_dir, e.file)
         IN IF Relevant(e)
            THEN ExtractEntries_Overwrite(WriteFile(fs, dst, e.data), lib_dir, entries, i + 1)
            ELSE ExtractEntries_Overwrite(fs, lib_dir, entries, i + 1)

RECURSIVE ExtractEntries(_, _, _, _)
\* The loop of extract_ort_libs_from_wheel from entry i on.
ExtractEntries(fs, lib_dir, entries, i) ==
    IF i > Len(entries) THEN fs
    ELSE LET e == entries[i]
             dst == FilePath(lib_dir, e.file)
         IN IF Relevant(e) /\ ~Exists(fs, dst)
            THEN ExtractEntries(fs @@ OneFile(dst, e.data), lib_dir, entries, i + 1)
            ELSE ExtractEntries(fs, lib_dir, entries, i + 1)

\* runtime.rs extract_ort_libs_from_wheel.
extract_ort_libs_from_wheel(fs, ds, wheel_path, lib_dir) ==
    LET ds1 == create_dir_all(ds, lib_dir) IN
    IF ~Exists(fs, wheel_path) THEN [res |-> Err("open wheel"), fs |-> fs, ds |-> ds1]
    ELSE LET zip == ZipEntries(fs[wheel_path]) IN
         IF ~zip.ok THEN [res |-> zip, fs |-> fs, ds |-> ds1]
         ELSE [res |-> Ok(TRUE), fs |-> ExtractEntries(fs, lib_dir, zip.val, 1), ds |-> ds1]

\* Mutant: any file of the version directory is taken for the archive.
find_any_wheel_AnyFile(fs, ds, dir) ==
    IF dir \notin ds THEN NoPath
    ELSE LET whl == FilesIn(fs, dir) IN
         IF whl = {} THEN NoPath ELSE CHOOSE p \in whl : TRUE

\* Mutant: a version directory's archive is never found.
find_any_wheel_Missing(fs, ds, dir) == NoPath

\* runtime.rs find_any_wheel: a version directory of the model holds at most
\* one file with the extension whl (the platform's wheel).
find_any_wheel(fs, ds, dir) ==
    IF dir \notin ds THEN NoPath
    ELSE LET whl == {p \in FilesIn(fs, dir) : p[2].ext = "whl"} IN
         IF whl = {} THEN NoPath ELSE CHOOSE p \in whl : TRUE

RECURSIVE FindInVersions(_, _, _, _, _)
\* The loop of find_any_installed_lib over the sorted version directories.
FindInVersions(fs, ds, o, package, versions) ==
    IF versions = <<>> THEN [res |-> Ok(NoPath), fs |-> fs, ds |-> ds]
    ELSE LET vdir == VerDir(package, Head(versions))
             lib_dir == LibDir(vdir)
             main == find_main_lib(fs, ds, o, lib_dir)
             wheel == find_any_wheel(fs, ds, vdir)
         IN IF main # NoPath THEN [res |-> Ok(main), fs |-> fs, ds |-> ds]
            ELSE IF wheel = NoPath THEN FindInVersions(fs, ds, o, package, Tail(versions))
            ELSE LET x == extract_ort_libs_from_wheel(fs, ds, wheel, lib_dir)
                     main2 == find_main_lib(x.fs, x.ds, o, lib_dir)
                 IN IF ~x.res.ok THEN x
                    ELSE IF main2 # NoPath THEN [res |-> Ok(main2), fs |-> x.fs, ds |-> x.ds]
                    ELSE FindInVersions(x.fs, x.ds, o, package, Tail(versions))

\* Mutant: the cache is not consulted.
find_any_installed_lib_NoLookup(fs, ds, o, package) == [res |-> Ok(NoPath), fs |-> fs, ds |-> ds]

\* runtime.rs find_any_installed_lib on <cache>/onnxruntime/<package>.
find_any_installed_lib(fs, ds, o, package) ==
    IF PkgDir(package) \notin ds THEN [res |-> Ok(NoPath), fs |-> fs, ds |-> ds]
    ELSE FindInVersions(fs, ds, o, package,
            SortDescending({v \in VersionNames : VerDir(package, v) \in ds}))


(***************************************************************************)
(* Cache states a run can leave behind, per version directory.             *)
(***************************************************************************)
\* What one version directory holds after a run that
\*   "none"      never got to it;
\*   "dir"       created it and failed before the transfer (create_dir_all);
\*   "part"      stopped during the transfer (a partial temp file);
\*   "archive"   stopped after the rename and before the extraction;
\*   "installed" completed (archive and lib/ with every library);
\*   "nomain"    completed the extraction of a wheel without a main library;
\*   "corrupt"   renamed a body that ended early into place (no digest was
\*               requested, download.rs:107) and stopped before the extraction.
ImageKinds == {"none", "dir", "part", "archive", "installed", "nomain"}

Image(package, version, kind, o, a) ==
    LET vdir == VerDir(package, version)
        no == normalize_os(o)
        wheel == FilePath(vdir, WheelName(no, a))
        d0 == {PkgDir(package), vdir}
    IN CASE kind = "none" -> [d |-> {}, f |-> EmptyFs]
         [] kind = "dir" -> [d |-> d0, f |-> EmptyFs]
         [] kind = "part" ->
                [d |-> d0,
                 f |-> OneFile(with_extension(wheel, "part"), <<WheelBody(no, TRUE)[1]>>)]
         [] kind = "archive" -> [d |-> d0, f |-> OneFile(wheel, WheelBody(no, TRUE))]
         [] kind = "corrupt" -> [d |-> d0, f |-> OneFile(wheel, <<WheelBody(no, TRUE)[1]>>)]
         [] kind = "installed" ->
                [d |-> d0 \cup {LibDir(vdir)},
                 f |-> ExtractEntries(OneFile(wheel, WheelBody(no, TRUE)), LibDir(vdir),
                                      WheelEntries(no, TRUE), 1)]
         [] OTHER ->
                [d |-> d0 \cup {LibDir(vdir)},
                 f |-> ExtractEntries(OneFile(wheel, WheelBody(no, FALSE)), LibDir(vdir),
                                      WheelEntries(no, FALSE), 1)]

\* Only a platform the index has a wheel for can have anything cached.
KindsOn(o, a, kinds) == IF HasWheel(o, a) THEN kinds ELSE {"none"}

(***************************************************************************)
(* State of a process in which nothing has been called yet.                *)
(***************************************************************************)
IgIdle ==
    [pc |-> "idle", lib |-> NoPath, seen |-> NoPath, loaded |-> FALSE,
     ret |-> Err(None), n |-> 0]
DlIdle ==
    [pc |-> "idle", dst |-> NoPath, sha256_hex |-> <<>>, md5_hex |-> <<>>,
     body |-> <<>>, pos |-> 0, sha256 |-> <<>>, md5 |-> <<>>, downloaded |-> 0,
     events |-> <<>>, ret |-> Err(None), n |-> 0, fd |-> "closed", own |-> <<>>]
EnIdle ==
    [pc |-> "idle", fn |-> None, plan |-> Plan("onnxruntime", None, FALSE),
     wheel_path |-> NoPath, sha256 |-> <<>>, ret |-> Err(None), n |-> 0,
     files0 |-> EmptyFs, dirs0 |-> {}, net0 |-> 0, asked0 |-> 0]
PlNone ==
    [fn |-> None, device |-> None, gpu_backend |-> None, yes |-> FALSE,
     reply |-> None, res |-> Err(None), asked |-> 0]

CallNone == [fn |-> None, args |-> <<>>, res |-> <<>>]

RqIdle ==
    [pc |-> "idle", entry |-> None, model |-> None, device |-> None, gpu_backend |-> None,
     allow |-> FALSE, reply |-> None, plan |-> Plan("onnxruntime", None, FALSE),
     rt |-> NoPath, model_path |-> NoPath, log |-> <<>>, attempts |-> <<>>, ret |-> Err(None),
     files0 |-> EmptyFs, dirs0 |-> {}, net0 |-> 0, n |-> 0, history |-> <<>>]

FreshProcess ==
    /\ net = <<>>
    /\ asked = 0
    /\ ORT_MAIN_LIB = NoPath
    /\ committed = <<>>
    /\ ig = [t \in Threads |-> IgIdle]
    /\ dl = [t \in Threads |-> DlIdle]
    /\ en = [t \in Threads |-> EnIdle]
    /\ pl = PlNone
    /\ rq = [t \in Threads |-> RqIdle]
    /\ call = CallNone

(***************************************************************************)
(* Plan resolution: each resolver applied once to every request, platform  *)
(* and cache state.                                                        *)
(***************************************************************************)
PlanCacheKinds == {"none", "archive", "installed"}

PlanInit ==
    /\ os \in OSes
    /\ arch \in Arches
    /\ \E kd \in KindsOn(os, arch, PlanCacheKinds), kg \in KindsOn(os, arch, PlanCacheKinds) :
          LET d == Image("onnxruntime-directml", "1.10.0", kd, os, arch)
              g == Image("onnxruntime-gpu", "1.10.0", kg, os, arch)
          IN /\ dirs = d.d \cup g.d
             /\ files = d.f @@ g.f
    /\ FreshProcess

\* Mutant: the non-interactive resolution asks the package index about the
\* accelerated package.
PlanNoninteractive_Index ==
    /\ pl.fn = None
    /\ \E device \in {"Cpu", "Gpu"}, gpu_backend \in GpuBackends, allow \in BOOLEAN :
          pl' = [fn |-> "plan_noninteractive", device |-> device,
                 gpu_backend |-> gpu_backend, yes |-> allow, reply |-> None,
                 res |-> plan_noninteractive(files, dirs, os, arch, device, gpu_backend, allow),
                 asked |-> 0]
    /\ net' = Append(net, <<"GET", <<"pypi", "onnxruntime-directml">>>>)
    /\ UNCHANGED <<os, arch, dirs, files, asked, ORT_MAIN_LIB, committed, ig, dl, en, rq, call>>

\* remove_background_bytes resolving its plan: core.rs passes Cpu or Gpu.
PlanNoninteractive ==
    /\ pl.fn = None
    /\ \E device \in {"Cpu", "Gpu"}, gpu_backend \in GpuBackends, allow \in BOOLEAN :
          pl' = [fn |-> "plan_noninteractive", device |-> device,
                 gpu_backend |-> gpu_backend, yes |-> allow, reply |-> None,
                 res |-> plan_noninteractive(files, dirs, os, arch, device, gpu_backend, allow),
                 asked |-> 0]
    /\ UNCHANGED <<os, arch, dirs, files, net, asked, ORT_MAIN_LIB, committed, ig, dl, en, rq, call>>

\* The CLI resolving its plan; `reply` is what the user types if asked.
ResolvePlan ==
    /\ pl.fn = None
    /\ \E device \in Devices, gpu_backend \in GpuBackends, yes \in BOOLEAN, reply \in Replies :
          LET r == resolve_plan(files, dirs, os, arch, device, gpu_backend, yes, reply) IN
          /\ pl' = [fn |-> "resolve_plan", device |-> device, gpu_backend |-> gpu_backend,
                    yes |-> yes, reply |-> IF r.asked = 1 THEN reply ELSE None,
                    res |-> r.res, asked |-> r.asked]
          /\ asked' = asked + r.asked
    /\ UNCHANGED <<os, arch, dirs, files, net, ORT_MAIN_LIB, committed, ig, dl, en, rq, call>>

PlanNext == PlanNoninteractive \/ ResolvePlan

SpecPlan == PlanInit /\ [][PlanNext]_vars

(***************************************************************************)
(* Properties of plan resolution.                                          *)
(***************************************************************************)
\* The file names find_main_lib recognises as the main library of an OS.
MainNamesOf(o) ==
    CASE o = "windows" -> {N("onnxruntime", "dll")}
      [] o = "macos" -> {N("libonnxruntime", "dylib"), N("libonnxruntime.1", "dylib")}
      [] OTHER -> {N("libonnxruntime", "so"), N("libonnxruntime.so", "1")}

\* A package is cached: some version directory's lib/ holds a main library.
Cached(package) ==
    \E v \in VersionNames, n \in MainNamesOf(os) :
        FilePath(LibDir(VerDir(package, v)), n) \in DOMAIN files

Accepted == pl.yes \/ pl.reply \in {"y", "Yes"}
Declined == ~pl.yes /\ pl.reply \in {"n", ""}

\* The resolution in pl went on to choose an accelerator.
GpuWanted ==
    \/ pl.device = "Gpu"
    \/ /\ pl.fn = "resolve_plan"
       /\ pl.device = "Auto"
       /\ os = "windows"
       /\ (Cached("onnxruntime-directml") \/ Cached("onnxruntime-gpu") \/ Accepted)

CudaPlatform ==
    \/ (os = "windows" /\ arch = "x86_64")
    \/ (os = "linux" /\ arch = "x86_64")
    \/ (os = "linux" /\ arch = "aarch64")

IsPlan(package, ep) ==
    pl.res.ok /\ pl.res.val.runtime_package = package /\ pl.res.val.ep = ep

\* C7: in both resolvers, when GPU is wanted, an explicit DirectML request
\* off Windows and an explicit CUDA request off windows/x86_64, linux/x86_64
\* and linux/aarch64 return no plan at all.
C7_PlatformMatrix ==
    (pl.fn # None /\ GpuWanted) =>
        /\ (pl.gpu_backend = "Directml" /\ os # "windows") => ~pl.res.ok
        /\ (pl.gpu_backend = "Cuda" /\ ~CudaPlatform) => ~pl.res.ok

C7_Witness ==
    /\ pl.fn = "resolve_plan" /\ pl.device = "Auto" /\ pl.gpu_backend = "Cuda"
    /\ os = "windows" /\ arch = "aarch64" /\ pl.reply = "y"
    /\ ~pl.res.ok

\* C8 as stated: for device CPU and every accelerator-backend argument,
\* plan_noninteractive names onnxruntime off Windows, and on Windows names
\* onnxruntime-directml exactly when downloads are permitted or it is cached;
\* the execution provider is none.
C8_Original ==
    (pl.fn = "plan_noninteractive" /\ pl.device = "Cpu") =>
        IF os = "windows" /\ (pl.yes \/ Cached("onnxruntime-directml"))
        THEN IsPlan("onnxruntime-directml", None)
        ELSE IsPlan("onnxruntime", None)

\* C8 amended: as C8, but on Windows the DirectML package is named exactly
\* when the accelerator-backend argument is not CUDA and downloads are
\* permitted or the package is cached.
C8_CpuRule ==
    (pl.fn = "plan_noninteractive" /\ pl.device = "Cpu") =>
        IF /\ os = "windows"
           /\ pl.gpu_backend # "Cuda"
           /\ (pl.yes \/ Cached("onnxruntime-directml"))
        THEN IsPlan("onnxruntime-directml", None)
        ELSE IsPlan("onnxruntime", None)

C8_Witness ==
    /\ pl.fn = "plan_noninteractive" /\ pl.device = "Cpu" /\ os = "windows"
    /\ pl.gpu_backend = "Auto" /\ ~pl.yes /\ Cached("onnxruntime-directml")
    /\ IsPlan("onnxruntime-directml", None)

\* What an explicit choice of accelerator yields under the platform matrix.
ExplicitOutcome(backend) ==
    IF backend = "Directml"
    THEN IF os = "windows" THEN IsPlan("onnxruntime-directml", "DirectML") ELSE ~pl.res.ok
    ELSE IF CudaPlatform THEN IsPlan("onnxruntime-gpu", "Cuda") ELSE ~pl.res.ok

\* C9: when GPU is wanted and the accelerator is Auto: on Windows DirectML
\* if DirectML is cached, else CUDA if CUDA is cached, else DirectML; on
\* Linux CUDA; elsewhere failure; the choice is validated like an explicit one.
C9_AutoAccelerator ==
    (pl.fn # None /\ GpuWanted /\ pl.gpu_backend = "Auto") =>
        CASE os = "windows" ->
                IF Cached("onnxruntime-directml") THEN ExplicitOutcome("Directml")
                ELSE IF Cached("onnxruntime-gpu") THEN ExplicitOutcome("Cuda")
                ELSE ExplicitOutcome("Directml")
          [] os = "linux" -> ExplicitOutcome("Cuda")
          [] OTHER -> ~pl.res.ok

C9_Witness ==
    /\ pl.fn = "plan_noninteractive" /\ pl.device = "Gpu" /\ pl.gpu_backend = "Auto"
    /\ os = "windows" /\ ~Cached("onnxruntime-directml") /\ Cached("onnxruntime-gpu")
    /\ IsPlan("onnxruntime-gpu", "Cuda")

NothingCached == ~Cached("onnxruntime-directml") /\ ~Cached("onnxruntime-gpu")

\* C10 as stated: resolve_plan with device Auto: off Windows the CPU plan
\* and no prompt; on Windows with an accelerator cached GPU and no prompt; on
\* Windows with nothing cached exactly one prompt, declining gives the plain
\* CPU plan, accepting gives a GPU plan with allow_download true.
C10_Original ==
    (pl.fn = "resolve_plan" /\ pl.device = "Auto") =>
        /\ os # "windows" => (IsPlan("onnxruntime", None) /\ pl.asked = 0)
        /\ (os = "windows" /\ ~NothingCached) =>
                (pl.asked = 0 /\ (pl.res.ok => pl.res.val.ep # None))
        /\ (os = "windows" /\ NothingCached) =>
                /\ pl.asked = 1
                /\ Declined => IsPlan("onnxruntime", None)
                /\ Accepted =>
                     (pl.res.ok /\ pl.res.val.ep # None /\ pl.res.val.allow_download)

\* The accelerator an explicit or Auto request resolves to on Windows.
WindowsChoice ==
    IF pl.gpu_backend # "Auto" THEN pl.gpu_backend
    ELSE IF Cached("onnxruntime-directml") THEN "Directml"
    ELSE IF Cached("onnxruntime-gpu") THEN "Cuda"
    ELSE "Directml"

\* C10 amended: as C10, except that with -y no question is asked and the
\* answer counts as yes, and that resolving to GPU yields the plan of the
\* chosen accelerator only where the platform matrix supports it (a CUDA
\* request on Windows off x86_64 fails instead).
C10_AutoDevice ==
    (pl.fn = "resolve_plan" /\ pl.device = "Auto") =>
        /\ os # "windows" =>
                (IsPlan("onnxruntime", None) /\ pl.asked = 0
                    /\ pl.res.val.allow_download = pl.yes)
        /\ (os = "windows" /\ ~NothingCached) =>
                /\ pl.asked = 0
                /\ ExplicitOutcome(WindowsChoice)
                /\ pl.res.ok => pl.res.val.allow_download = pl.yes
        /\ (os = "windows" /\ NothingCached) =>
                /\ pl.asked = (IF pl.yes THEN 0 ELSE 1)
                /\ Declined => (IsPlan("onnxruntime", None) /\ ~pl.res.val.allow_download)
                /\ Accepted =>
                     /\ ExplicitOutcome(WindowsChoice)
                     /\ pl.res.ok => pl.res.val.allow_download

C10_Witness ==
    /\ pl.fn = "resolve_plan" /\ pl.device = "Auto" /\ os = "windows" /\ NothingCached
    /\ ~pl.yes /\ pl.reply = "Yes" /\ pl.asked = 1
    /\ IsPlan("onnxruntime-directml", "DirectML") /\ pl.res.val.allow_download

(***************************************************************************)
(* Backend init guard: init_ort, one step per access to the process-wide   *)
(* state, so that calls of different threads interleave.                   *)
(***************************************************************************)
RestartRequired == "Restart required to switch"
LoadFailed == "load onnxruntime"

\* The libraries ensureBackend can hand to init_ort on linux/x86_64.
InitLibs ==
    {FilePath(LibDir(VerDir(p, "1.10.0")), MainName("linux")) :
        p \in {"onnxruntime", "onnxruntime-gpu"}}

InitGuardInit ==
    /\ os = "linux"
    /\ arch = "x86_64"
    /\ LET c == Image("onnxruntime", "1.10.0", "installed", os, arch)
           g == Image("onnxruntime-gpu", "1.10.0", "installed", os, arch)
       IN dirs = c.d \cup g.d /\ files = c.f @@ g.f
    /\ FreshProcess

IgUnchanged == UNCHANGED <<os, arch, dirs, files, net, asked, dl, en, pl, rq, call>>

\* Mutant: a committed backend is never compared with the requested one.
InitOrtGet_NoCompare(t, lib) ==
    /\ ig[t].pc = "idle"
    /\ ig[t].n < MaxCalls
    /\ LET p == ORT_MAIN_LIB
           c == [ig[t] EXCEPT !.lib = lib, !.seen = p, !.loaded = FALSE, !.n = @ + 1]
       IN ig' = [ig EXCEPT ![t] =
                    IF p # NoPath
                    THEN [c EXCEPT !.pc = "done", !.ret = Ok(TRUE)]
                    ELSE [c EXCEPT !.pc = "load", !.ret = Err(None)]]
    /\ UNCHANGED <<ORT_MAIN_LIB, committed>>
    /\ IgUnchanged

\* init_ort from its entry to the return of ORT_MAIN_LIB.get(): the early
\* returns when a backend is recorded.
InitOrtGet(t, lib) ==
    /\ ig[t].pc = "idle"
    /\ ig[t].n < MaxCalls
    /\ LET p == ORT_MAIN_LIB
           c == [ig[t] EXCEPT !.lib = lib, !.seen = p, !.loaded = FALSE, !.n = @ + 1]
       IN ig' = [ig EXCEPT ![t] =
                    IF p # NoPath
                    THEN [c EXCEPT !.pc = "done",
                                   !.ret = IF p # lib THEN Err(RestartRequired) ELSE Ok(TRUE)]
                    ELSE [c EXCEPT !.pc = "load", !.ret = Err(None)]]
    /\ UNCHANGED <<ORT_MAIN_LIB, committed>>
    /\ IgUnchanged

\* ort::init_from(&rt.main_lib): loading the library succeeds or fails.
InitOrtLoad(t) ==
    /\ ig[t].pc = "load"
    /\ \E ok \in BOOLEAN :
          ig' = [ig EXCEPT ![t] =
                    IF ok THEN [@ EXCEPT !.pc = "commit", !.loaded = TRUE]
                    ELSE [@ EXCEPT !.pc = "done", !.ret = Err(LoadFailed)]]
    /\ UNCHANGED <<ORT_MAIN_LIB, committed>>
    /\ IgUnchanged

\* builder.commit().
InitOrtCommit(t) ==
    /\ ig[t].pc = "commit"
    /\ committed' = Append(committed, ig[t].lib)
    /\ ig' = [ig EXCEPT ![t].pc = "set"]
    /\ UNCHANGED ORT_MAIN_LIB
    /\ IgUnchanged

\* let _ = ORT_MAIN_LIB.set(..): a set of a full OnceLock changes nothing,
\* and its Err is dropped.
InitOrtSet(t) ==
    /\ ig[t].pc = "set"
    /\ ORT_MAIN_LIB' = IF ORT_MAIN_LIB = NoPath THEN ig[t].lib ELSE ORT_MAIN_LIB
    /\ ig' = [ig EXCEPT ![t].pc = "done", ![t].ret = Ok(TRUE)]
    /\ UNCHANGED committed
    /\ IgUnchanged

\* The caller goes on with the result (core.rs:105, main.rs:21).
InitOrtReturn(t) ==
    /\ ig[t].pc = "done"
    /\ ig' = [ig EXCEPT ![t].pc = "idle"]
    /\ UNCHANGED <<ORT_MAIN_LIB, committed>>
    /\ IgUnchanged

NoCallInProgress == \A t \in Threads : ig[t].pc = "idle"
Returned(t) == ig[t].pc \in {"idle", "done"} /\ ig[t].n > 0

\* Calls of worker threads, interleaved at every step (lib.rs spawn_blocking).
InitGuardNext ==
    \E t \in Threads :
        \/ \E lib \in InitLibs : InitOrtGet(t, lib)
        \/ InitOrtLoad(t)
        \/ InitOrtCommit(t)
        \/ InitOrtSet(t)
        \/ InitOrtReturn(t)

\* Calls made one after the other: a call starts when none is in progress.
InitGuardSeqNext ==
    \E t \in Threads :
        \/ \E lib \in InitLibs : NoCallInProgress /\ InitOrtGet(t, lib)
        \/ InitOrtLoad(t)
        \/ InitOrtCommit(t)
        \/ InitOrtSet(t)
        \/ InitOrtReturn(t)

SpecInitGuard == InitGuardInit /\ [][InitGuardNext]_vars
SpecInitGuardSeq == InitGuardInit /\ [][InitGuardSeqNext]_vars

\* C1: calls made one after the other, each seen as it returns.  A call that finds no backend
\* recorded and whose load succeeds returns success and records its path; a
\* call that finds a path recorded loads nothing, leaves the record as it is,
\* and returns success for that same path and the restart-required error for
\* any other.
C1_SequentialGuard ==
    \A t \in Threads :
        ig[t].pc = "done" =>
            IF ig[t].seen = NoPath
            THEN IF ig[t].loaded
                 THEN ig[t].ret = Ok(TRUE) /\ ORT_MAIN_LIB = ig[t].lib
                 ELSE ig[t].ret = Err(LoadFailed) /\ ORT_MAIN_LIB = NoPath
            ELSE /\ ~ig[t].loaded
                 /\ ORT_MAIN_LIB = ig[t].seen
                 /\ Len(committed) = 1
                 /\ ig[t].ret = IF ig[t].lib = ig[t].seen THEN Ok(TRUE) ELSE Err(RestartRequired)

\* A first call recorded a path, and a later call with another path was refused.
C1_Witness ==
    \E t, u \in Threads :
        /\ t # u
        /\ Returned(t) /\ ig[t].seen = NoPath /\ ig[t].ret = Ok(TRUE)
        /\ ig[u].pc = "done" /\ ig[u].seen = ig[t].lib /\ ig[u].lib # ig[t].lib
        /\ ig[u].ret = Err(RestartRequired)

\* C2: concurrent first-time calls agree on one winner: no two callers with
\* different library paths both return success, and the native library is
\* loaded and committed at most once.
C2_SingleWinner ==
    /\ Len(committed) <= 1
    /\ \A t, u \in Threads :
          (Returned(t) /\ Returned(u) /\ ig[t].ret.ok /\ ig[u].ret.ok)
              => ig[t].lib = ig[u].lib

(***************************************************************************)
(* Download engine: download_to_path_with_progress, one step per file      *)
(* system or network operation.                                            *)
(***************************************************************************)
\* An ideal digest: the algorithm and the bytes it was computed over.
Sha256Of(bytes) == <<"sha256", bytes>>
Md5Of(bytes) == <<"md5", bytes>>

\* A hex string: the digest it spells and how (lower case as hex::encode
\* writes it, or upper case with a 0x prefix as a caller may pass it).
Hex(digest, style) == [digest |-> digest, style |-> style]
HexStyles == {"lower", "0xUPPER"}

\* download.rs eq_hex: both sides trimmed, stripped of 0x, compared without case.
eq_hex(a, b) == a.digest = b.digest

ModelsDir == <<"models">>
Parent(p) == p[1]
TmpOf(dst) == with_extension(dst, "part")

\* The destinations the callers download to: a wheel of a version
\* directory (runtime.rs) and a model file (model.rs).
DlWheelDst == FilePath(VerDir("onnxruntime", "1.10.0"), WheelName("linux", "x86_64"))
DlModelDst == FilePath(ModelsDir, N("u2netp", "onnx"))
DlDsts == {DlWheelDst, DlModelDst}

\* The bodies a server may send on a platform: two different complete
\* files, and one that ends early without a transport error.
ServedBodies(o) == {WheelBody(o, TRUE), WheelBody(o, FALSE), <<WheelBody(o, TRUE)[1]>>}
\* The bodies whose digests a caller may expect.
ExpectedBodies == {WheelBody("linux", TRUE), WheelBody("linux", FALSE)}

Sha256Args == {<<>>} \cup {<<Hex(Sha256Of(b), st)>> : b \in ExpectedBodies, st \in HexStyles}
Md5Args == {<<>>} \cup {<<Hex(Md5Of(b), "lower")>> : b \in ExpectedBodies}


\* The open file of a call (the local `file`, alive from File::create to the
\* return) follows the file it was opened on, not the path: fd says where
\* that file is linked now ("tmp", "dst", or "orphan" once its path was
\* removed or replaced), and own holds the content of an orphan.
OpenPcs == {"read", "final", "verify", "rename"}
Holds(u, t, where) ==
    u # t /\ dl[u].pc \in OpenPcs /\ dl[u].dst = dl[t].dst /\ dl[u].fd = where

\* write_all at the offset of the open file: bytes after the end are
\* appended, a gap before the offset reads as zeros, bytes at the offset
\* are overwritten.
WriteAt(content, off, c) ==
    [i \in 1..Max(Len(content), off + 1) |->
        IF i = off + 1 THEN c ELSE IF i <= Len(content) THEN content[i] ELSE 0]

DlFrame == UNCHANGED <<os, arch, asked, ORT_MAIN_LIB, committed, ig, en, pl, rq, call>>

DlFail(t, e) == dl' = [dl EXCEPT ![t].pc = "done", ![t].ret = Err(e)]

\* The call: the locals as they are on entry.
DlEnter(t, dst, sha256_hex, md5_hex) ==
    dl' = [dl EXCEPT ![t] =
              [pc |-> "mkdir", dst |-> dst, sha256_hex |-> sha256_hex, md5_hex |-> md5_hex,
               body |-> <<>>, pos |-> 0, sha256 |-> <<>>, md5 |-> <<>>, downloaded |-> 0,
               events |-> <<>>, ret |-> Err(None), n |-> dl[t].n + 1,
               fd |-> "closed", own |-> <<>>]]

\* A caller downloads only to a destination that does not exist
\* (runtime.rs:224, 275; model.rs:30); a retry repeats the first request.
DlStart(t) ==
    /\ dl[t].pc = "idle"
    /\ dl[t].n < MaxTries
    /\ \E dst \in DlDsts, sha256_hex \in Sha256Args, md5_hex \in Md5Args :
          /\ dl[t].n > 0 =>
                (dst = dl[t].dst /\ sha256_hex = dl[t].sha256_hex /\ md5_hex = dl[t].md5_hex)
          /\ ~Exists(files, dst)
          /\ DlEnter(t, dst, sha256_hex, md5_hex)
    /\ UNCHANGED <<dirs, files, net>>
    /\ DlFrame

\* fs::create_dir_all(parent).
DlMkdir(t) ==
    /\ dl[t].pc = "mkdir"
    /\ dirs' = create_dir_all(dirs, Parent(dl[t].dst))
    /\ dl' = [dl EXCEPT ![t].pc = "rmtmp"]
    /\ UNCHANGED <<files, net>>
    /\ DlFrame

\* let _ = fs::remove_file(&tmp).
DlRemoveTmp(t) ==
    /\ dl[t].pc = "rmtmp"
    /\ files' = RemoveFile(files, TmpOf(dl[t].dst))
    /\ dl' = [u \in Threads |->
                 IF u = t THEN [dl[t] EXCEPT !.pc = "get"]
                 ELSE IF Holds(u, t, "tmp")
                 THEN [dl[u] EXCEPT !.fd = "orphan", !.own = files[TmpOf(dl[t].dst)]]
                 ELSE dl[u]]
    /\ UNCHANGED <<dirs, net>>
    /\ DlFrame

\* ureq::get(url).call() and the status check: a transport error, a
\* status that is not 2xx, or a response with some body.
DlGet(t) ==
    /\ dl[t].pc = "get"
    /\ net' = Append(net, <<"GET", dl[t].dst>>)
    /\ \/ DlFail(t, "GET")
       \/ DlFail(t, "download failed (HTTP status)")
       \/ \E body \in ServedBodies(normalize_os(os)) :
             dl' = [dl EXCEPT ![t].pc = "create", ![t].body = body]
    /\ UNCHANGED <<dirs, files>>
    /\ DlFrame

\* File::create(&tmp) and the two hashers: the file at the temp path is
\* created, or truncated if it exists (also under another open file).
DlCreate(t) ==
    /\ dl[t].pc = "create"
    /\ files' = WriteFile(files, TmpOf(dl[t].dst), <<>>)
    /\ dl' = [dl EXCEPT ![t].pc = "read", ![t].fd = "tmp"]
    /\ UNCHANGED <<dirs, net>>
    /\ DlFrame

\* Mutant: the loop writes to the destination itself.
DlRead_InPlace(t) ==
    /\ dl[t].pc = "read"
    /\ LET d == dl[t]
           tmp == d.dst
       IN IF d.pos = Len(d.body)
          THEN /\ dl' = [dl EXCEPT ![t].pc = "final"]
               /\ UNCHANGED files
          ELSE LET c == d.body[d.pos + 1]
                   read == [d EXCEPT !.pos = @ + 1, !.downloaded = @ + 1,
                                     !.sha256 = Append(@, c), !.md5 = Append(@, c)]
               IN \/ DlFail(t, "read response body") /\ UNCHANGED files
                  \/ /\ dl' = [dl EXCEPT ![t] = [read EXCEPT !.pc = "done",
                                                             !.ret = Err("write file")]]
                     /\ UNCHANGED files
                  \/ /\ files' = WriteFile(files, tmp,
                                    (IF Exists(files, tmp) THEN files[tmp] ELSE <<>>) \o <<c>>)
                     /\ \E emit \in BOOLEAN :
                           dl' = [dl EXCEPT ![t] =
                                     IF emit
                                     THEN [read EXCEPT !.events =
                                             Append(@, [downloaded |-> read.downloaded,
                                                        done |-> FALSE])]
                                     ELSE read]
    /\ UNCHANGED <<dirs, net>>
    /\ DlFrame

\* One turn of the loop: reader.read fails, or returns 0 at the end of the
\* body, or returns a chunk, which is counted, hashed and written (the write
\* may fail) and, when 250 ms have passed, reported.
DlRead(t) ==
    /\ dl[t].pc = "read"
    /\ LET d == dl[t]
           tmp == TmpOf(d.dst)
       IN IF d.pos = Len(d.body)
          THEN /\ dl' = [dl EXCEPT ![t].pc = "final"]
               /\ UNCHANGED files
          ELSE LET c == d.body[d.pos + 1]
                   read == [d EXCEPT !.pos = @ + 1, !.downloaded = @ + 1,
                                     !.sha256 = Append(@, c), !.md5 = Append(@, c)]
               IN \/ DlFail(t, "read response body") /\ UNCHANGED files
                  \/ /\ dl' = [dl EXCEPT ![t] = [read EXCEPT !.pc = "done",
                                                             !.ret = Err("write file")]]
                     /\ UNCHANGED files
                  \/ /\ files' =
                           CASE d.fd = "tmp" -> WriteFile(files, tmp, WriteAt(files[tmp], d.pos, c))
                             [] d.fd = "dst" -> WriteFile(files, d.dst, WriteAt(files[d.dst], d.pos, c))
                             [] OTHER -> files
                     /\ \E emit \in BOOLEAN :
                           LET wrote == IF d.fd = "orphan"
                                        THEN [read EXCEPT !.own = WriteAt(@, d.pos, c)]
                                        ELSE read
                           IN dl' = [dl EXCEPT ![t] =
                                        IF emit
                                        THEN [wrote EXCEPT !.events =
                                                Append(@, [downloaded |-> read.downloaded,
                                                           done |-> FALSE])]
                                        ELSE wrote]
    /\ UNCHANGED <<dirs, net>>
    /\ DlFrame

\* Mutant: the terminal event is not emitted.
DlFinal_NoEvent(t) ==
    /\ dl[t].pc = "final"
    /\ dl' = [dl EXCEPT ![t].pc = "verify"]
    /\ UNCHANGED <<dirs, files, net>>
    /\ DlFrame

\* file.flush().ok() and the completion event.
DlFinal(t) ==
    /\ dl[t].pc = "final"
    /\ dl' = [dl EXCEPT ![t].pc = "verify",
                        ![t].events = Append(@, [downloaded |-> dl[t].downloaded, done |-> TRUE])]
    /\ UNCHANGED <<dirs, files, net>>
    /\ DlFrame

\* Mutant: the SHA-256 comparison is left out.
Verified_NoSha(d) ==
    IF d.md5_hex # <<>> /\ ~eq_hex(d.md5_hex[1], Hex(Md5Of(d.md5), "lower"))
    THEN Err("md5 mismatch")
    ELSE Ok(TRUE)

\* The two digest comparisons, SHA-256 first.
Verified(d) ==
    IF d.sha256_hex # <<>> /\ ~eq_hex(d.sha256_hex[1], Hex(Sha256Of(d.sha256), "lower"))
    THEN Err("sha256 mismatch")
    ELSE IF d.md5_hex # <<>> /\ ~eq_hex(d.md5_hex[1], Hex(Md5Of(d.md5), "lower"))
    THEN Err("md5 mismatch")
    ELSE Ok(TRUE)

DlVerify(t) ==
    /\ dl[t].pc = "verify"
    /\ dl' = [dl EXCEPT ![t] =
                 IF Verified(dl[t]).ok THEN [@ EXCEPT !.pc = "rename"]
                 ELSE [@ EXCEPT !.pc = "done", !.ret = Verified(dl[t])]]
    /\ UNCHANGED <<dirs, files, net>>
    /\ DlFrame

\* fs::rename(&tmp, dst): atomic, or failing and changing nothing. It
\* moves the file that is at the temp path now, with every open file on it,
\* and fails when there is none.
DlRename(t) ==
    /\ dl[t].pc = "rename"
    /\ LET tmp == TmpOf(dl[t].dst) IN
       \/ /\ Exists(files, tmp)
          /\ files' = WriteFile(RemoveFile(files, tmp), dl[t].dst, files[tmp])
          /\ dl' = [u \in Threads |->
                       IF u = t
                       THEN [dl[t] EXCEPT !.pc = "done", !.ret = Ok(TRUE),
                                          !.fd = IF @ = "tmp" THEN "dst" ELSE @]
                       ELSE IF Holds(u, t, "tmp") THEN [dl[u] EXCEPT !.fd = "dst"]
                       ELSE IF Holds(u, t, "dst")
                       THEN [dl[u] EXCEPT !.fd = "orphan", !.own = files[dl[t].dst]]
                       ELSE dl[u]]
       \/ /\ DlFail(t, "rename")
          /\ UNCHANGED files
    /\ UNCHANGED <<dirs, net>>
    /\ DlFrame

\* The call has returned to its caller.
DlReturn(t) ==
    /\ dl[t].pc = "done"
    /\ dl' = [dl EXCEPT ![t].pc = "idle"]
    /\ UNCHANGED <<dirs, files, net>>
    /\ DlFrame

\* The process is killed during the call; the files stay as they are.
DlCrash(t) ==
    /\ dl[t].pc \notin {"idle", "done"}
    /\ dl' = [dl EXCEPT ![t].pc = "idle", ![t].ret = Err("killed")]
    /\ UNCHANGED <<dirs, files, net>>
    /\ DlFrame

DlStep(t) ==
    \/ DlMkdir(t)
    \/ DlRemoveTmp(t)
    \/ DlGet(t)
    \/ DlCreate(t)
    \/ DlRead(t)
    \/ DlFinal(t)
    \/ DlVerify(t)
    \/ DlRename(t)

\* A cache in which an earlier run may have left the parent directory and
\* a temp file behind.
DownloadInit ==
    /\ os = "linux"
    /\ arch = "x86_64"
    /\ \E mk \in SUBSET DlDsts, stale \in SUBSET DlDsts :
          /\ stale \subseteq mk
          /\ dirs = UNION {create_dir_all({}, Parent(p)) : p \in mk}
          /\ files = [p \in {TmpOf(q) : q \in stale} |-> <<WheelBody("linux", FALSE)[1]>>]
    /\ FreshProcess

\* One downloader: the CLI, or a single request of the GUI.
DownloadNext == DlStart(1) \/ DlStep(1) \/ DlReturn(1) \/ DlCrash(1)

SpecDownload == DownloadInit /\ [][DownloadNext]_vars

\* The digest of the body the server sent differs from one the caller expects.
DigestDiffers(d) ==
    \/ d.sha256_hex # <<>> /\ d.sha256_hex[1].digest # Sha256Of(d.body)
    \/ d.md5_hex # <<>> /\ d.md5_hex[1].digest # Md5Of(d.body)

\* The whole body was streamed: the completion event was sent.
Streamed(d) == d.events # <<>> /\ d.events[Len(d.events)].done

MismatchErrors == {Err("sha256 mismatch"), Err("md5 mismatch")}

\* C3: a download whose body does not have the expected SHA-256 or MD5
\* digest never returns success and never creates the destination; once
\* the whole body was streamed it returns the mismatch error.
C3_DigestEnforced ==
    \A t \in Threads :
        (dl[t].n > 0 /\ DigestDiffers(dl[t])) =>
            /\ ~dl[t].ret.ok
            /\ ~Exists(files, dl[t].dst)
            /\ (dl[t].pc = "done" /\ Streamed(dl[t])) => dl[t].ret \in MismatchErrors

C3_Witness ==
    \E t \in Threads :
        /\ dl[t].pc = "done"
        /\ dl[t].ret = Err("sha256 mismatch")
        /\ dl[t].body \in ExpectedBodies
        /\ Exists(files, TmpOf(dl[t].dst))
        /\ files[TmpOf(dl[t].dst)] = dl[t].body
        /\ ~Exists(files, dl[t].dst)

\* C4: with one downloader, in every state (so wherever the call fails or
\* the process is killed) a destination either does not exist or holds the
\* whole body of a call that returned success, with every requested digest
\* matching; all other data is under the temp path; the rename is reached
\* only with the whole verified body in the temp file and nothing touches
\* the files after it.
C4_Atomicity ==
    /\ DOMAIN files \subseteq DlDsts \cup {TmpOf(dst) : dst \in DlDsts}
    /\ \A dst \in DlDsts :
          Exists(files, dst) =>
              \E t \in Threads :
                  /\ dl[t].dst = dst
                  /\ dl[t].pc \in {"done", "idle"}
                  /\ dl[t].ret = Ok(TRUE)
                  /\ files[dst] = dl[t].body
                  /\ ~DigestDiffers(dl[t])
                  /\ ~Exists(files, TmpOf(dst))
    /\ \A t \in Threads :
          dl[t].pc = "rename" =>
              /\ ~DigestDiffers(dl[t])
              /\ Exists(files, TmpOf(dl[t].dst))
              /\ files[TmpOf(dl[t].dst)] = dl[t].body

C4_Witness ==
    \E t \in Threads :
        /\ dl[t].n > 1
        /\ dl[t].pc = "done"
        /\ dl[t].ret = Ok(TRUE)
        /\ dl[t].sha256_hex # <<>>
        /\ Exists(files, dl[t].dst)
        /\ Len(files[dl[t].dst]) > 1

(***************************************************************************)
(* Package index (pypi.rs).                                                *)
(***************************************************************************)
ReleaseFile(filename, packagetype, body) ==
    [filename |-> filename, packagetype |-> packagetype,
     sha256 |-> Hex(Sha256Of(body), "lower")]

WheelPlatforms == WheelOSes \X {"x86_64", "aarch64"}

\* The platforms in the order the index lists their wheels.
WheelPlatformSeq ==
    <<<<"windows", "x86_64">>, <<"windows", "aarch64">>, <<"macos", "x86_64">>,
      <<"macos", "aarch64">>, <<"linux", "aarch64">>, <<"linux", "x86_64">>>>

\* The release files of a version: a source distribution and, unless the
\* release has none, one wheel per platform (with or without the main library).
ReleaseFiles(kind) ==
    <<ReleaseFile(N("ort", "tar.gz"), "sdist", <<>>)>>
        \o (IF kind = "sdist only" THEN <<>>
            ELSE [i \in 1..Len(WheelPlatformSeq) |->
                     LET w == WheelPlatformSeq[i] IN
                     ReleaseFile(WheelName(w[1], w[2]), "bdist_wheel",
                                 WheelBody(w[1], kind = "full"))])

ReleaseKinds == {"full", "nomain", "sdist only", "no entry"}

\* The project JSON: info.version and the releases entry of that version.
Project(version, kind) ==
    [version |-> version,
     releases |-> IF kind = "no entry" THEN <<>> ELSE <<ReleaseFiles(kind)>>]

\* The characters of the stems of the index's file names.
StemChars(stem) ==
    CASE stem = "ort" ->
            <<"o", "r", "t">>
      [] stem = "ort-win_amd64" ->
            <<"o", "r", "t", "-", "w", "i", "n", "_", "a", "m", "d", "6", "4">>
      [] stem = "ort-win_arm64" ->
            <<"o", "r", "t", "-", "w", "i", "n", "_", "a", "r", "m", "6", "4">>
      [] stem = "ort-manylinux_x86_64" ->
            <<"o", "r", "t", "-", "m", "a", "n", "y", "l", "i", "n", "u", "x", "_", "x",
              "8", "6", "_", "6", "4">>
      [] stem = "ort-manylinux_aarch64" ->
            <<"o", "r", "t", "-", "m", "a", "n", "y", "l", "i", "n", "u", "x", "_", "a",
              "a", "r", "c", "h", "6", "4">>
      [] stem = "ort-macosx_x86_64" ->
            <<"o", "r", "t", "-", "m", "a", "c", "o", "s", "x", "_", "x", "8", "6", "_",
              "6", "4">>
      [] stem = "ort-macosx_arm64" ->
            <<"o", "r", "t", "-", "m", "a", "c", "o", "s", "x", "_", "a", "r", "m", "6",
              "4">>
      [] stem = "ort-cp310-manylinux_x86_64" ->
            <<"o", "r", "t", "-", "c", "p", "3", "1", "0", "-", "m", "a", "n", "y", "l",
              "i", "n", "u", "x", "_", "x", "8", "6", "_", "6", "4">>
      [] stem = "ort-cp39-manylinux_x86_64" ->
            <<"o", "r", "t", "-", "c", "p", "3", "9", "-", "m", "a", "n", "y", "l", "i",
              "n", "u", "x", "_", "x", "8", "6", "_", "6", "4">>
      [] stem = "ort-cp27-manylinux_x86_64" ->
            <<"o", "r", "t", "-", "c", "p", "2", "7", "-", "m", "a", "n", "y", "l", "i",
              "n", "u", "x", "_", "x", "8", "6", "_", "6", "4">>
      [] stem = "ort-cp39-macosx_x86_64" ->
            <<"o", "r", "t", "-", "c", "p", "3", "9", "-", "m", "a", "c", "o", "s", "x",
              "_", "x", "8", "6", "_", "6", "4">>
      [] stem = "ort-cp39-linux_x86_64" ->
            <<"o", "r", "t", "-", "c", "p", "3", "9", "-", "l", "i", "n", "u", "x", "_",
              "x", "8", "6", "_", "6", "4">>
      [] stem = "ort-cp39-macosx_universal2" ->
            <<"o", "r", "t", "-", "c", "p", "3", "9", "-", "m", "a", "c", "o", "s", "x",
              "_", "u", "n", "i", "v", "e", "r", "s", "a", "l", "2">>

\* The characters of a file name of the index.
NameChars(name) ==
    StemChars(name.stem)
        \o (IF name.ext = "whl" THEN <<".", "w", "h", "l">>
            ELSE <<".", "t", "a", "r", ".", "g", "z">>)

\* str::ends_with and str::contains.
EndsWith(x, suffix) ==
    /\ Len(x) >= Len(suffix)
    /\ SubSeq(x, Len(x) - Len(suffix) + 1, Len(x)) = suffix
Contains(x, sub) == \E i \in 1..(Len(x) - Len(sub) + 1) : SubSeq(x, i, i + Len(sub) - 1) = sub

\* pypi.rs wheel_matches.
wheel_matches(filename, o, a) ==
    LET f == NameChars(filename)
        manylinux == <<"m", "a", "n", "y", "l", "i", "n", "u", "x">>
        macosx == <<"m", "a", "c", "o", "s", "x">>
    IN CASE o = "windows" /\ a = "x86_64" -> EndsWith(f, <<"w", "i", "n", "_", "a", "m", "d", "6", "4", ".", "w", "h", "l">>)
         [] o = "windows" /\ a = "aarch64" -> EndsWith(f, <<"w", "i", "n", "_", "a", "r", "m", "6", "4", ".", "w", "h", "l">>)
         [] o = "linux" /\ a = "x86_64" ->
               EndsWith(f, <<"x", "8", "6", "_", "6", "4", ".", "w", "h", "l">>) /\ Contains(f, manylinux)
         [] o = "linux" /\ a = "aarch64" ->
               EndsWith(f, <<"a", "a", "r", "c", "h", "6", "4", ".", "w", "h", "l">>) /\ Contains(f, manylinux)
         [] o = "macos" /\ a = "aarch64" ->
               EndsWith(f, <<"a", "r", "m", "6", "4", ".", "w", "h", "l">>) /\ Contains(f, macosx)
         [] o = "macos" /\ a = "x86_64" ->
               EndsWith(f, <<"x", "8", "6", "_", "6", "4", ".", "w", "h", "l">>) /\ Contains(f, macosx)
         [] OTHER -> FALSE

RECURSIVE FilterType(_, _)
\* files.iter().filter(..).collect(), in the order of the list.
FilterType(fs, packagetype) ==
    IF fs = <<>> THEN <<>>
    ELSE (IF Head(fs).packagetype = packagetype THEN <<Head(fs)>> ELSE <<>>)
            \o FilterType(Tail(fs), packagetype)

RECURSIVE InsertByFilename(_, _)
\* f put after the entries whose file name is not greater.
InsertByFilename(sorted, f) ==
    IF sorted = <<>> THEN <<f>>
    ELSE IF CmpChars(NameChars(Head(sorted).filename), NameChars(f.filename)) <= 0
    THEN <<Head(sorted)>> \o InsertByFilename(Tail(sorted), f)
    ELSE <<f>> \o sorted

RECURSIVE SortByFilename(_, _)
\* candidates.sort_by(|a, b| a.filename.cmp(&b.filename)): a stable sort.
SortByFilename(fs, sorted) ==
    IF fs = <<>> THEN sorted
    ELSE SortByFilename(Tail(fs), InsertByFilename(sorted, Head(fs)))

RECURSIVE FindMatch(_, _, _)
\* candidates.into_iter().find(|f| wheel_matches(&f.filename, os, arch)).
FindMatch(fs, o, a) ==
    IF fs = <<>> THEN <<>>
    ELSE IF wheel_matches(Head(fs).filename, o, a) THEN <<Head(fs)>>
    ELSE FindMatch(Tail(fs), o, a)

\* Mutant: the candidates are searched in the order of the release list.
select_wheel_Unsorted(proj, o, a) ==
    IF proj.releases = <<>> THEN Err("missing releases entry")
    ELSE LET f == FindMatch(FilterType(proj.releases[1], "bdist_wheel"), o, a)
         IN IF f = <<>> THEN Err("no wheel found") ELSE Ok(f[1])

\* pypi.rs select_wheel.
select_wheel(proj, o, a) ==
    IF proj.releases = <<>> THEN Err("missing releases entry")
    ELSE LET candidates == FilterType(proj.releases[1], "bdist_wheel")
             f == FindMatch(SortByFilename(candidates, <<>>), o, a)
         IN IF f = <<>> THEN Err("no wheel found") ELSE Ok(f[1])

(***************************************************************************)
(* ensure_onnxruntime and ensure_onnxruntime_noninteractive.               *)
(***************************************************************************)
EnsureFns == {"ensure_onnxruntime", "ensure_onnxruntime_noninteractive"}

EnFrame == UNCHANGED <<os, arch, ORT_MAIN_LIB, committed, ig, pl, rq, call>>

EnFail(t, e) == en' = [en EXCEPT ![t].pc = "done", ![t].ret = Err(e)]

\* The entry of a call; the state on entry is kept for the properties.
EnEnter(t, fn, plan) ==
    en' = [en EXCEPT ![t] =
              [EnIdle EXCEPT !.pc = "lookup", !.fn = fn, !.plan = plan, !.n = en[t].n + 1,
                             !.files0 = files, !.dirs0 = dirs,
                             !.net0 = Len(net), !.asked0 = asked]]

\* A call with the function and plan of this process.
EnsureCall(t) ==
    /\ en[t].pc = "idle"
    /\ en[t].n < MaxTries
    /\ EnEnter(t, en[t].fn, en[t].plan)
    /\ UNCHANGED <<dirs, files, net, asked, dl>>
    /\ EnFrame

\* Step 1: find_any_installed_lib(os, &pkg_dir)?.
EnsureLookup(t) ==
    /\ en[t].pc = "lookup"
    /\ LET x == find_any_installed_lib(files, dirs, os, en[t].plan.runtime_package) IN
       /\ files' = x.fs
       /\ dirs' = x.ds
       /\ en' = [en EXCEPT ![t] =
                    IF ~x.res.ok THEN [@ EXCEPT !.pc = "done", !.ret = x.res]
                    ELSE IF x.res.val # NoPath THEN [@ EXCEPT !.pc = "done", !.ret = x.res]
                    ELSE [@ EXCEPT !.pc = "fetch"]]
    /\ UNCHANGED <<net, asked, dl>>
    /\ EnFrame

\* pypi::fetch_project and select_wheel: the request fails, or the index
\* answers with the project as it is now.
EnsureFetch(t) ==
    /\ en[t].pc = "fetch"
    /\ net' = Append(net, <<"GET", <<"pypi", en[t].plan.runtime_package>>>>)
    /\ \/ EnFail(t, "GET pypi")
       \/ EnFail(t, "pypi request failed (HTTP status)")
       \/ \E version \in VersionNames, kind \in ReleaseKinds :
             LET proj == Project(version, kind)
                 wheel == select_wheel(proj, normalize_os(os), normalize_arch(arch))
             IN en' = [en EXCEPT ![t] =
                          IF ~wheel.ok THEN [@ EXCEPT !.pc = "done", !.ret = wheel]
                          ELSE [@ EXCEPT !.pc = "permit",
                                         !.wheel_path =
                                             FilePath(VerDir(en[t].plan.runtime_package, proj.version),
                                                      wheel.val.filename),
                                         !.sha256 = <<wheel.val.sha256>>]]
    /\ UNCHANGED <<dirs, files, asked, dl>>
    /\ EnFrame

\* Mutant: the non-interactive function does not look at allow_download.
EnsurePermit_NoFlag(t) ==
    /\ en[t].pc = "permit"
    /\ en' = [en EXCEPT ![t].pc = "download"]
    /\ UNCHANGED <<dirs, files, net, asked, dl>>
    /\ EnFrame

\* The permission to download: the prompt of ensure_onnxruntime
\* (runtime.rs:220), the flag of ensure_onnxruntime_noninteractive (271).
EnsurePermit(t) ==
    /\ en[t].pc = "permit"
    /\ IF Exists(files, en[t].wheel_path)
       THEN /\ en' = [en EXCEPT ![t].pc = "download"]
            /\ UNCHANGED asked
       ELSE IF en[t].fn = "ensure_onnxruntime"
       THEN \E reply \in Replies :
               LET r == prompt_yes_no(en[t].plan.allow_download, reply) IN
               /\ asked' = asked + r.asked
               /\ en' = [en EXCEPT ![t] =
                            IF ~r.res.ok THEN [@ EXCEPT !.pc = "done", !.ret = r.res]
                            ELSE IF ~r.res.val
                            THEN [@ EXCEPT !.pc = "done",
                                           !.ret = Err("runtime download cancelled by user")]
                            ELSE [@ EXCEPT !.pc = "download"]]
       ELSE /\ IF en[t].plan.allow_download
               THEN en' = [en EXCEPT ![t].pc = "download"]
               ELSE EnFail(t, "download required")
            /\ UNCHANGED asked
    /\ UNCHANGED <<dirs, files, net, dl>>
    /\ EnFrame

\* if !wheel_path.exists() { download_to_path(..) }: the call is entered.
EnsureDownload(t) ==
    /\ en[t].pc = "download"
    /\ IF Exists(files, en[t].wheel_path)
       THEN /\ en' = [en EXCEPT ![t].pc = "extract"]
            /\ UNCHANGED dl
       ELSE /\ en' = [en EXCEPT ![t].pc = "downloading"]
            /\ DlEnter(t, en[t].wheel_path, en[t].sha256, <<>>)
    /\ UNCHANGED <<dirs, files, net, asked>>
    /\ EnFrame

\* The download has returned: `?` on its result.
EnsureDownloaded(t) ==
    /\ en[t].pc = "downloading"
    /\ dl[t].pc = "done"
    /\ en' = [en EXCEPT ![t] =
                 IF dl[t].ret.ok THEN [@ EXCEPT !.pc = "extract"]
                 ELSE [@ EXCEPT !.pc = "done", !.ret = dl[t].ret]]
    /\ dl' = [dl EXCEPT ![t] = DlIdle]
    /\ UNCHANGED <<dirs, files, net, asked>>
    /\ EnFrame

\* extract_ort_libs_from_wheel(&wheel_path, &lib_dir)? and find_main_lib.
EnsureExtract(t) ==
    /\ en[t].pc = "extract"
    /\ LET lib_dir == LibDir(Parent(en[t].wheel_path))
           x == extract_ort_libs_from_wheel(files, dirs, en[t].wheel_path, lib_dir)
           main_lib == find_main_lib(x.fs, x.ds, os, lib_dir)
       IN /\ files' = x.fs
          /\ dirs' = x.ds
          /\ en' = [en EXCEPT ![t].pc = "done",
                              ![t].ret =
                                  IF ~x.res.ok THEN x.res
                                  ELSE IF main_lib = NoPath
                                  THEN Err("unable to find ONNX Runtime library after extraction")
                                  ELSE Ok(main_lib)]
    /\ UNCHANGED <<net, asked, dl>>
    /\ EnFrame

\* What is left of a call once it is over.
EnOver(e) == [EnIdle EXCEPT !.fn = e.fn, !.plan = e.plan, !.n = e.n]

\* The caller has the result.
EnsureReturn(t) ==
    /\ en[t].pc = "done"
    /\ en' = [en EXCEPT ![t] = EnOver(en[t])]
    /\ UNCHANGED <<dirs, files, net, asked, dl>>
    /\ EnFrame

\* The process is killed during the call; the cache stays as it is.
EnsureCrash(t) ==
    /\ en[t].pc \notin {"idle", "done"}
    /\ en' = [en EXCEPT ![t] = EnOver(en[t])]
    /\ dl' = [dl EXCEPT ![t] = DlIdle]
    /\ UNCHANGED <<dirs, files, net, asked>>
    /\ EnFrame

EnsurePlatforms == {<<"linux", "x86_64">>, <<"windows", "x86_64">>, <<"freebsd", "x86">>}

\* The kinds with an archive that holds the main library.  Once a version
\* directory has one, every later run installs from it and downloads nothing,
\* so runs that follow one another leave such an archive in one version
\* directory at most.
FullKinds == {"archive", "installed"}

\* A process with its function and plan, over a cache earlier runs have left.
EnsureInit ==
    /\ \E p \in EnsurePlatforms : os = p[1] /\ arch = p[2]
    /\ \E fn \in EnsureFns, package \in Packages, allow \in BOOLEAN,
          kh \in KindsOn(os, arch, ImageKinds), kl \in KindsOn(os, arch, ImageKinds) :
          /\ ~(kh \in FullKinds /\ kl \in FullKinds)
          /\ LET h == Image(package, "1.10.0", kh, os, arch)
                 l == Image(package, "1.9.0", kl, os, arch)
             IN /\ dirs = h.d \cup l.d
                /\ files = h.f @@ l.f
                /\ en = [t \in Threads |->
                            [EnIdle EXCEPT !.fn = fn, !.plan = Plan(package, None, allow)]]
    /\ net = <<>>
    /\ asked = 0
    /\ ORT_MAIN_LIB = NoPath
    /\ committed = <<>>
    /\ ig = [t \in Threads |-> IgIdle]
    /\ dl = [t \in Threads |-> DlIdle]
    /\ pl = PlNone
    /\ rq = [t \in Threads |-> RqIdle]
    /\ call = CallNone

EnsureStep(t) ==
    \/ EnsureLookup(t)
    \/ EnsureFetch(t)
    \/ EnsurePermit(t)
    \/ EnsureDownload(t)
    \/ EnsureDownloaded(t)
    \/ EnsureExtract(t)

\* One caller: the CLI, or one request of the GUI at a time.
EnsureNext ==
    \/ EnsureCall(1)
    \/ EnsureStep(1)
    \/ en[1].pc = "downloading" /\ DlStep(1)
    \/ EnsureReturn(1)
    \/ EnsureCrash(1)

SpecEnsure == EnsureInit /\ [][EnsureNext]_vars

(***************************************************************************)
(* Properties of ensure_onnxruntime(_noninteractive).                      *)
(***************************************************************************)
PackageOf(t) == en[t].plan.runtime_package

\* lib/ of a version directory holds a file with a main-library name.
HoldsMainLib(fs, package, v) ==
    \E n \in MainNamesOf(os) : Exists(fs, FilePath(LibDir(VerDir(package, v)), n))

\* The cache holds a usable install of the package.
UsableInstall(fs, package) == \E v \in VersionNames : HoldsMainLib(fs, package, v)

\* The path is a main library of the package that is in the cache now.
InstalledLibrary(path, package) ==
    /\ Exists(files, path)
    /\ path[2] \in MainNamesOf(os)
    /\ \E v \in VersionNames : path[1] = LibDir(VerDir(package, v))

\* The call so far made no network request and asked nothing.
Offline(t) == Len(net) = en[t].net0 /\ asked = en[t].asked0

\* C5: a call of either ensure function that starts with a usable install
\* of the plan's package in the cache never gets to the package index or to
\* the prompt, and returns a main library of the package that is in the
\* cache, with no network request made and no question asked, whatever
\* allow_download is.
C5_Idempotent ==
    \A t \in Threads :
        (en[t].pc # "idle" /\ UsableInstall(en[t].files0, PackageOf(t))) =>
            /\ en[t].pc \in {"lookup", "done"}
            /\ Offline(t)
            /\ en[t].pc = "done" =>
                  /\ en[t].ret.ok
                  /\ InstalledLibrary(en[t].ret.val, PackageOf(t))

C5_Witness ==
    \E t \in Threads :
        /\ en[t].pc = "done"
        /\ en[t].n > 1
        /\ en[t].net0 > 1
        /\ ~en[t].plan.allow_download
        /\ UsableInstall(en[t].files0, PackageOf(t))
        /\ en[t].ret.ok
        /\ Offline(t)

\* The archives of a version directory.
ArchivesIn(fs, package, v) == {p \in FilesIn(fs, VerDir(package, v)) : p[2].ext = "whl"}

\* A version directory holds a downloaded archive and nothing in lib/.
ArchiveOnly(fs, package, v) ==
    /\ ArchivesIn(fs, package, v) # {}
    /\ FilesIn(fs, LibDir(VerDir(package, v))) = {}

\* The archive has a main library of this OS below a capi/ directory.
ArchiveHoldsMain(content) ==
    \E w \in WheelOSes :
        /\ content = WheelBody(w, TRUE)
        /\ MainName(w) \in MainNamesOf(os)

VersionRank(v) == IF v = "1.10.0" THEN 2 ELSE 1

\* A version directory an install can come from: lib/ has a main library,
\* or the archive holds one.
Recoverable(fs, package, v) ==
    \/ HoldsMainLib(fs, package, v)
    \/ \E p \in ArchivesIn(fs, package, v) : ArchiveHoldsMain(fs[p])

NotPermitted(t) ==
    /\ en[t].pc # "idle"
    /\ en[t].fn = "ensure_onnxruntime_noninteractive"
    /\ ~en[t].plan.allow_download

\* The requests of the call so far.
RequestsOf(t) == SubSeq(net, en[t].net0 + 1, Len(net))

IndexRequest(package) == <<"GET", <<"pypi", package>>>>

\* The call has not started an artifact download: it made no request but
\* to the package index, and the download engine was not entered.
NoArtifactDownload(t) ==
    /\ \A i \in 1..Len(RequestsOf(t)) : RequestsOf(t)[i] = IndexRequest(PackageOf(t))
    /\ en[t].pc \notin {"download", "downloading", "extract"} \/ Exists(files, en[t].wheel_path)
    /\ dl[t].pc = "idle"

\* C11 as stated: without permission and with nothing in the cache an
\* install can come from (no installed version, no archive with a main
\* library) the non-interactive function fails with the download-required
\* error whatever the index does, downloads nothing and leaves the cache as
\* it was.
C11_Original ==
    \A t \in Threads :
        (/\ NotPermitted(t)
         /\ \A v \in VersionNames : ~Recoverable(en[t].files0, PackageOf(t), v)) =>
            /\ NoArtifactDownload(t)
            /\ files = en[t].files0
            /\ dirs = en[t].dirs0
            /\ en[t].pc = "done" => en[t].ret = Err("download required")

\* C11: without permission, and with no version directory that is installed
\* or holds an archive with a main library, the non-interactive function
\* fails and starts no artifact download; the error is the download-required
\* one exactly when the index answered with a wheel for the platform that is
\* not in the cache (otherwise it is the error of the index request, of the
\* wheel selection, or of the extraction of the archive found); and with no
\* archive in the cache nothing is written.
C11_FailFast ==
    \A t \in Threads :
        (/\ NotPermitted(t)
         /\ \A v \in VersionNames : ~Recoverable(en[t].files0, PackageOf(t), v)) =>
            /\ NoArtifactDownload(t)
            /\ (\A v \in VersionNames : ArchivesIn(en[t].files0, PackageOf(t), v) = {}) =>
                  (files = en[t].files0 /\ dirs = en[t].dirs0)
            /\ en[t].pc = "done" =>
                  /\ ~en[t].ret.ok
                  /\ en[t].ret = Err("download required") <=>
                        (en[t].wheel_path # NoPath /\ ~Exists(files, en[t].wheel_path))

C11_Witness ==
    \E t \in Threads :
        /\ NotPermitted(t)
        /\ en[t].pc = "done"
        /\ \A v \in VersionNames : ~Recoverable(en[t].files0, PackageOf(t), v)
        /\ en[t].ret = Err("download required")
        /\ RequestsOf(t) = <<IndexRequest(PackageOf(t))>>
        /\ files = en[t].files0

(***************************************************************************)
(* Model registry (model.rs).                                              *)
(***************************************************************************)
ModelNames ==
    {"u2netp", "u2net", "u2net_human_seg", "u2net_cloth_seg", "silueta",
     "isnet-general-use", "isnet-anime"}

\* The names a request may carry: a supported one, one that is supported
\* once trimmed and lower-cased, and one that is not supported.
ModelInputs == {"u2netp", " U2Net ", "nope"}

\* name.trim().to_ascii_lowercase() on the names above.
TrimLowerName(name) == IF name = " U2Net " THEN "u2net" ELSE name

\* model.rs model_spec.
model_spec(name) ==
    LET n == TrimLowerName(name) IN
    IF n \in ModelNames
    THEN Ok([name |-> n,
             input_size |-> IF n \in {"isnet-general-use", "isnet-anime"} THEN 1024 ELSE 320])
    ELSE Err("unsupported model")

ModelPath(m) == FilePath(ModelsDir, N(m.name, "onnx"))

(***************************************************************************)
(* Inference session set-up (u2net.rs predict_mask).                       *)
(***************************************************************************)
\* What the runtime does at each step of predict_mask: TRUE where the step
\* succeeds.  builder2 and commit2 are the steps of the CPU fallback.
SessionOutcomes ==
    [builder : BOOLEAN, configure : BOOLEAN, commit : BOOLEAN,
     builder2 : BOOLEAN, commit2 : BOOLEAN, run : BOOLEAN]

Inference(f, attempts) ==
    [res |-> IF f.run THEN Ok(TRUE) ELSE Err("run inference"), attempts |-> attempts]

\* u2net.rs predict_mask up to the inference: the sessions it sets out to
\* create, in order, and its result.
predict_mask(preferred_ep, f) ==
    IF preferred_ep = None
    THEN IF ~f.builder
         THEN [res |-> Err("create ORT session builder"), attempts |-> <<"Cpu">>]
         ELSE IF f.commit THEN Inference(f, <<"Cpu">>)
         ELSE [res |-> Err("load onnx model"), attempts |-> <<"Cpu">>]
    ELSE IF ~f.builder
    THEN [res |-> Err("create ORT session builder"), attempts |-> <<preferred_ep>>]
    ELSE IF ~f.configure THEN [res |-> Err("configure EP"), attempts |-> <<preferred_ep>>]
    ELSE IF f.commit THEN Inference(f, <<preferred_ep>>)
    ELSE IF ~f.builder2
    THEN [res |-> Err("create ORT session builder"), attempts |-> <<preferred_ep, "Cpu">>]
    ELSE IF f.commit2 THEN Inference(f, <<preferred_ep, "Cpu">>)
    ELSE [res |-> Err("load onnx model (CPU fallback)"), attempts |-> <<preferred_ep, "Cpu">>]

(***************************************************************************)
(* The two entry points: run of the CLI (main.rs) and                      *)
(* remove_background_bytes (core.rs).                                      *)
(***************************************************************************)
Entries == {"run", "remove_background_bytes"}

RqFrame == UNCHANGED <<os, arch, pl, call>>

RqFail(t, res) == rq' = [rq EXCEPT ![t].pc = "done", ![t].ret = res]

\* A request arrives with its options (for run: the command line, `allow`
\* being -y).
RqStart(t) ==
    /\ rq[t].pc = "idle"
    /\ rq[t].entry = None
    /\ \E entry \in Entries, model \in ModelInputs, device \in Devices,
          gpu_backend \in GpuBackends, allow \in BOOLEAN :
          /\ entry = "remove_background_bytes" => device \in {"Cpu", "Gpu"}
          /\ rq' = [rq EXCEPT ![t] =
                       [RqIdle EXCEPT !.pc = IF entry = "run" THEN "plan" ELSE "decode",
                                      !.entry = entry, !.model = model, !.device = device,
                                      !.gpu_backend = gpu_backend, !.allow = allow]]
    /\ UNCHANGED <<dirs, files, net, asked, ORT_MAIN_LIB, committed, ig, dl, en>>
    /\ RqFrame

\* core.rs:70: image::load_from_memory(input_bytes)?.
RqDecode(t) ==
    /\ rq[t].pc = "decode"
    /\ \/ RqFail(t, Err("decode input image"))
       \/ rq' = [rq EXCEPT ![t].pc = "plan"]
    /\ UNCHANGED <<dirs, files, net, asked, ORT_MAIN_LIB, committed, ig, dl, en>>
    /\ RqFrame

\* main.rs:19 resolve_plan(&args)?; core.rs:73 plan_noninteractive(..)?.
RqPlan(t) ==
    /\ rq[t].pc = "plan"
    /\ \E reply \in Replies :
          LET r == IF rq[t].entry = "run"
                   THEN resolve_plan(files, dirs, os, arch, rq[t].device, rq[t].gpu_backend,
                                     rq[t].allow, reply)
                   ELSE [res |-> plan_noninteractive(files, dirs, os, arch, rq[t].device,
                                                     rq[t].gpu_backend, rq[t].allow),
                         asked |-> 0]
          IN /\ asked' = asked + r.asked
             /\ rq' = [rq EXCEPT ![t] =
                          IF r.res.ok
                          THEN [@ EXCEPT !.pc = "ensure", !.plan = r.res.val,
                                         !.reply = IF r.asked = 1 THEN reply ELSE None,
                                         !.log = Append(@, "plan")]
                          ELSE [@ EXCEPT !.pc = "done", !.ret = r.res,
                                         !.reply = IF r.asked = 1 THEN reply ELSE None]]
    /\ UNCHANGED <<dirs, files, net, ORT_MAIN_LIB, committed, ig, dl, en>>
    /\ RqFrame

\* Mutant: every entry point calls the interactive ensure_onnxruntime.
RqEnsure_Interactive(t) ==
    /\ rq[t].pc = "ensure"
    /\ EnEnter(t, "ensure_onnxruntime", rq[t].plan)
    /\ rq' = [rq EXCEPT ![t].pc = "ensuring"]
    /\ UNCHANGED <<dirs, files, net, asked, ORT_MAIN_LIB, committed, ig, dl>>
    /\ RqFrame

\* main.rs:20 ensure_onnxruntime(&plan); core.rs:95
\* ensure_onnxruntime_noninteractive(&plan, ..): the call is entered.
RqEnsure(t) ==
    /\ rq[t].pc = "ensure"
    /\ EnEnter(t, IF rq[t].entry = "run" THEN "ensure_onnxruntime"
                  ELSE "ensure_onnxruntime_noninteractive", rq[t].plan)
    /\ rq' = [rq EXCEPT ![t].pc = "ensuring"]
    /\ UNCHANGED <<dirs, files, net, asked, ORT_MAIN_LIB, committed, ig, dl>>
    /\ RqFrame

\* `?` on the result of the ensure call.
RqEnsured(t) ==
    /\ rq[t].pc = "ensuring"
    /\ en[t].pc = "done"
    /\ rq' = [rq EXCEPT ![t] =
                 IF en[t].ret.ok
                 THEN [@ EXCEPT !.pc = "init", !.rt = en[t].ret.val, !.log = Append(@, "ensure")]
                 ELSE [@ EXCEPT !.pc = "done", !.ret = en[t].ret]]
    /\ en' = [en EXCEPT ![t] = EnIdle]
    /\ UNCHANGED <<dirs, files, net, asked, ORT_MAIN_LIB, committed, ig, dl>>
    /\ RqFrame

\* Mutant: the result of init_ort is dropped.
RqInited_IgnoreError(t) ==
    /\ rq[t].pc = "init"
    /\ ig[t].pc = "done"
    /\ rq' = [rq EXCEPT ![t] =
                 IF ig[t].ret.ok
                 THEN [@ EXCEPT !.pc = "model", !.log = Append(@, "init")]
                 ELSE [@ EXCEPT !.pc = "model"]]
    /\ ig' = [ig EXCEPT ![t].pc = "idle"]
    /\ UNCHANGED <<dirs, files, net, asked, ORT_MAIN_LIB, committed, dl, en>>
    /\ RqFrame

\* main.rs:21, core.rs:105: `?` on the result of init_ort(&rt).
RqInited(t) ==
    /\ rq[t].pc = "init"
    /\ ig[t].pc = "done"
    /\ rq' = [rq EXCEPT ![t] =
                 IF ig[t].ret.ok
                 THEN [@ EXCEPT !.pc = "model", !.log = Append(@, "init")]
                 ELSE [@ EXCEPT !.pc = "done", !.ret = ig[t].ret]]
    /\ ig' = [ig EXCEPT ![t].pc = "idle"]
    /\ UNCHANGED <<dirs, files, net, asked, ORT_MAIN_LIB, committed, dl, en>>
    /\ RqFrame

\* What follows the model in each entry point.
AfterModel(r) == IF r.entry = "run" THEN "open" ELSE "infer"

\* Mutant: the download permission is not consulted for a model.
RqModel_NoFlag(t) ==
    /\ rq[t].pc = "model"
    /\ LET m == model_spec(rq[t].model)
           here == [rq[t] EXCEPT !.files0 = files, !.dirs0 = dirs, !.net0 = Len(net)]
       IN IF ~m.ok
          THEN rq' = [rq EXCEPT ![t] = [here EXCEPT !.pc = "done", !.ret = m]] /\ UNCHANGED dl
          ELSE IF Exists(files, ModelPath(m.val))
          THEN /\ rq' = [rq EXCEPT ![t] =
                            [here EXCEPT !.pc = AfterModel(here), !.model_path = ModelPath(m.val),
                                         !.log = Append(@, "model")]]
               /\ UNCHANGED dl
          ELSE /\ rq' = [rq EXCEPT ![t] = [here EXCEPT !.pc = "model_dl",
                                                       !.model_path = ModelPath(m.val)]]
               /\ DlEnter(t, ModelPath(m.val), <<>>, <<>>)
    /\ UNCHANGED <<dirs, files, net, asked, ORT_MAIN_LIB, committed, ig, en>>
    /\ RqFrame

\* model.rs ensure_model_noninteractive up to the download (ensure_model of
\* the CLI passes allow_download = true); the state on entry is kept for the
\* properties.
RqModel(t) ==
    /\ rq[t].pc = "model"
    /\ LET m == model_spec(rq[t].model)
           allow_download == rq[t].entry = "run" \/ rq[t].allow
           here == [rq[t] EXCEPT !.files0 = files, !.dirs0 = dirs, !.net0 = Len(net)]
       IN IF ~m.ok
          THEN rq' = [rq EXCEPT ![t] = [here EXCEPT !.pc = "done", !.ret = m]] /\ UNCHANGED dl
          ELSE IF Exists(files, ModelPath(m.val))
          THEN /\ rq' = [rq EXCEPT ![t] =
                            [here EXCEPT !.pc = AfterModel(here), !.model_path = ModelPath(m.val),
                                         !.log = Append(@, "model")]]
               /\ UNCHANGED dl
          ELSE IF ~allow_download
          THEN /\ rq' = [rq EXCEPT ![t] = [here EXCEPT !.pc = "done",
                                                       !.ret = Err("download required: model")]]
               /\ UNCHANGED dl
          ELSE /\ rq' = [rq EXCEPT ![t] = [here EXCEPT !.pc = "model_dl",
                                                       !.model_path = ModelPath(m.val)]]
               /\ DlEnter(t, ModelPath(m.val), <<>>, <<>>)
    /\ UNCHANGED <<dirs, files, net, asked, ORT_MAIN_LIB, committed, ig, en>>
    /\ RqFrame

\* model.rs:44: `?` on the download, then Ok(ModelInstall { path, .. }).
RqModelDownloaded(t) ==
    /\ rq[t].pc = "model_dl"
    /\ dl[t].pc = "done"
    /\ rq' = [rq EXCEPT ![t] =
                 IF dl[t].ret.ok
                 THEN [@ EXCEPT !.pc = AfterModel(rq[t]), !.log = Append(@, "model")]
                 ELSE [@ EXCEPT !.pc = "done", !.ret = dl[t].ret]]
    /\ dl' = [dl EXCEPT ![t] = DlIdle]
    /\ UNCHANGED <<dirs, files, net, asked, ORT_MAIN_LIB, committed, ig, en>>
    /\ RqFrame

\* main.rs:26: image::open(input_path)?.
RqOpen(t) ==
    /\ rq[t].pc = "open"
    /\ \/ RqFail(t, Err("open image"))
       \/ rq' = [rq EXCEPT ![t].pc = "infer"]
    /\ UNCHANGED <<dirs, files, net, asked, ORT_MAIN_LIB, committed, ig, dl, en>>
    /\ RqFrame

\* main.rs:29, core.rs:136: predict_mask(.., plan.ep)?.
RqInfer(t) ==
    /\ rq[t].pc = "infer"
    /\ \E f \in SessionOutcomes :
          LET r == predict_mask(rq[t].plan.ep, f) IN
          rq' = [rq EXCEPT ![t].pc = "done", ![t].ret = r.res, ![t].attempts = r.attempts,
                           ![t].log = Append(@, "predict_mask")]
    /\ UNCHANGED <<dirs, files, net, asked, ORT_MAIN_LIB, committed, ig, dl, en>>
    /\ RqFrame

RequestPlatforms == {<<"linux", "x86_64">>, <<"windows", "x86_64">>}

\* The packages an earlier run may have installed.
CachedSets ==
    {{}, {"onnxruntime"}, {"onnxruntime", "onnxruntime-directml"},
     {"onnxruntime", "onnxruntime-gpu"}}

\* A process on a cache in which each package is installed or absent and
\* the default model is present or absent; an earlier request of the process
\* may have committed a library.
RequestInit ==
    /\ \E p \in RequestPlatforms : os = p[1] /\ arch = p[2]
    /\ \E cached \in CachedSets, have_model \in BOOLEAN :
          LET img == [pk \in Packages |->
                         Image(pk, "1.10.0", IF pk \in cached THEN "installed" ELSE "none",
                               os, arch)]
              m == IF have_model THEN OneFile(FilePath(ModelsDir, N("u2netp", "onnx")), <<5>>)
                   ELSE EmptyFs
          IN /\ dirs = UNION {img[pk].d : pk \in Packages}
                         \cup (IF have_model THEN {ModelsDir} ELSE {})
             /\ files = img["onnxruntime"].f @@ img["onnxruntime-directml"].f
                           @@ img["onnxruntime-gpu"].f @@ m
             /\ \E lib \in {NoPath} \cup {find_main_lib(files, dirs, os,
                                              LibDir(VerDir(pk, "1.10.0"))) : pk \in cached} :
                   /\ ORT_MAIN_LIB = lib
                   /\ committed = IF lib = NoPath THEN <<>> ELSE <<lib>>
    /\ net = <<>>
    /\ asked = 0
    /\ ig = [t \in Threads |-> IgIdle]
    /\ dl = [t \in Threads |-> DlIdle]
    /\ en = [t \in Threads |-> EnIdle]
    /\ pl = PlNone
    /\ rq = [t \in Threads |-> RqIdle]
    /\ call = CallNone

RqStep(t) ==
    \/ RqStart(t)
    \/ RqDecode(t)
    \/ RqPlan(t)
    \/ RqEnsure(t)
    \/ RqEnsured(t)
    \/ RqInited(t)
    \/ RqModel(t)
    \/ RqModelDownloaded(t)
    \/ RqOpen(t)
    \/ RqInfer(t)

\* init_ort inside a request.
RqInitStep(t) ==
    \/ InitOrtGet(t, rq[t].rt)
    \/ InitOrtLoad(t)
    \/ InitOrtCommit(t)
    \/ InitOrtSet(t)

\* One request of one process.
RequestNext ==
    \/ RqStep(1)
    \/ rq[1].pc = "ensuring" /\ EnsureStep(1)
    \/ rq[1].pc \in {"ensuring", "model_dl"} /\ DlStep(1)
    \/ rq[1].pc = "init" /\ RqInitStep(1)

SpecRequest == RequestInit /\ [][RequestNext]_vars

(***************************************************************************)
(* Properties of the entry points.                                         *)
(***************************************************************************)
NonInteractive(t) == rq[t].entry = "remove_background_bytes"

\* C12: in every execution of remove_background_bytes, whatever the options
\* and the cache, prompt_yes_no is never invoked and no answer is read from
\* standard input.
C12_NoPrompt ==
    \A t \in Threads : NonInteractive(t) => asked = 0 /\ rq[t].reply = None

\* A request of remove_background_bytes that needed a download it was not
\* allowed: the point where the interactive entry point asks.
C12_Witness ==
    \E t \in Threads :
        /\ NonInteractive(t)
        /\ rq[t].pc = "done"
        /\ ~rq[t].allow
        /\ rq[t].ret = Err("download required")

(***************************************************************************)
(* Plan resolution and the network.                                        *)
(***************************************************************************)
\* A step in which plan_noninteractive or resolve_plan runs.
PlanResolved == pl.fn = None /\ pl'.fn # None

\* C13: a step of plan_noninteractive or of resolve_plan sends no request,
\* enters neither the download engine nor the ensure functions and leaves
\* the cache as it was; a Gpu/Cuda request on macOS fails in that step, and
\* a Gpu/Auto request on Windows with onnxruntime-directml cached yields the
\* DirectML plan in that step.
C13_NetworkFree ==
    [][PlanResolved =>
          /\ net' = net /\ net' = <<>>
          /\ dl' = dl /\ en' = en
          /\ files' = files /\ dirs' = dirs
          /\ (os = "macos" /\ pl'.device = "Gpu" /\ pl'.gpu_backend = "Cuda") => ~pl'.res.ok
          /\ (os = "windows" /\ pl'.device = "Gpu" /\ pl'.gpu_backend = "Auto"
                 /\ has_any_cached_runtime(files, dirs, os, "onnxruntime-directml"))
                => /\ pl'.res.ok
                   /\ pl'.res.val.runtime_package = "onnxruntime-directml"
                   /\ pl'.res.val.ep = "DirectML"]_vars

\* plan_noninteractive on Windows, Gpu/Auto, downloads not allowed, with
\* onnxruntime-directml in the cache: the DirectML plan and no request.
C13_Witness ==
    /\ pl.fn = "plan_noninteractive" /\ os = "windows"
    /\ pl.device = "Gpu" /\ pl.gpu_backend = "Auto" /\ ~pl.yes
    /\ has_any_cached_runtime(files, dirs, os, "onnxruntime-directml")
    /\ pl.res.ok /\ pl.res.val.ep = "DirectML"
    /\ net = <<>>

(***************************************************************************)
(* The version comparator as a function of directory names.                *)
(***************************************************************************)
\* Directory names: plain versions, a short one, one with a leading zero,
\* pre- and post-release suffixes, names without a numeric prefix and one
\* whose first component does not fit 64 bits.
CmpNames ==
    {"1.9.0", "1.10.0", "1.10", "1.09.0", "1.9.0.0", "1.10.0rc1", "1.10.0.post1",
     "2", "rc1", "", "99999999999999999999.5"}

VersionsInit ==
    /\ os = "linux"
    /\ arch = "x86_64"
    /\ dirs = {}
    /\ files = EmptyFs
    /\ FreshProcess

\* cmp_versions applied to three names, pairwise.
CmpVersions ==
    /\ call.fn = None
    /\ \E a \in CmpNames, b \in CmpNames, c \in CmpNames :
          call' = [fn |-> "cmp_versions", args |-> <<a, b, c>>,
                   res |-> [ab |-> cmp_versions(a, b), ba |-> cmp_versions(b, a),
                            bc |-> cmp_versions(b, c), ac |-> cmp_versions(a, c)]]
    /\ UNCHANGED <<os, arch, dirs, files, net, asked, ORT_MAIN_LIB, committed, ig, dl, en, pl, rq>>

VersionsNext == CmpVersions

SpecVersions == VersionsInit /\ [][VersionsNext]_vars

\* The numeric prefix of each name, read off the name by hand.
NumericPrefix(v) ==
    CASE v = "1.9.0" -> <<1, 9, 0>>
      [] v = "1.10.0" -> <<1, 10, 0>>
      [] v = "1.10" -> <<1, 10>>
      [] v = "1.09.0" -> <<1, 9, 0>>
      [] v = "1.9.0.0" -> <<1, 9, 0, 0>>
      [] v = "1.10.0rc1" -> <<1, 10, 0>>
      [] v = "1.10.0.post1" -> <<1, 10, 0>>
      [] v = "2" -> <<2>>
      [] v = "rc1" -> <<>>
      [] v = "" -> <<>>
      [] v = "99999999999999999999.5" -> <<>>

\* Component i of a prefix, a missing one counting as 0.
Component(p, i) == IF i <= Len(p) THEN p[i] ELSE 0

MaxComponents == 4

\* The first component at which two prefixes differ, 0 if there is none.
FirstDifference(p, q) ==
    IF \A i \in 1..MaxComponents : Component(p, i) = Component(q, i) THEN 0
    ELSE CHOOSE i \in 1..MaxComponents :
            /\ Component(p, i) # Component(q, i)
            /\ \A j \in 1..(i - 1) : Component(p, j) = Component(q, j)

\* What the rule of the claim yields for two names.
ExpectedOrder(a, b) ==
    LET p == NumericPrefix(a)
        q == NumericPrefix(b)
        i == FirstDifference(p, q)
    IN IF i # 0 THEN CmpInt(Component(p, i), Component(q, i))
       ELSE CmpChars(Chars(a), Chars(b))

\* C14: cmp_versions orders names by their numeric dot-separated prefixes,
\* component by component as integers with a missing component counting as
\* 0, compares the whole names as strings only when the prefixes are equal,
\* and is a total order: antisymmetric, transitive, equal only for the same
\* name.
C14_TotalOrder ==
    call.fn = "cmp_versions" =>
        LET a == call.args[1]
            b == call.args[2]
            c == call.args[3]
            r == call.res
        IN /\ r.ab = ExpectedOrder(a, b)
           /\ r.ab = 0 - r.ba
           /\ (r.ab = 0) <=> (a = b)
           /\ (r.ab <= 0 /\ r.bc <= 0) => r.ac <= 0
           /\ (a = "1.9.0" /\ b = "1.10.0") => r.ab = -1

\* 1.9.0 below 1.10.0 below its post-release: a chain decided by the
\* second component and then by the names.
C14_Witness ==
    /\ call.fn = "cmp_versions"
    /\ call.args = <<"1.9.0", "1.10.0", "1.10.0.post1">>
    /\ call.res.ab = -1 /\ call.res.bc = -1 /\ call.res.ac = -1

(***************************************************************************)
(* Artifact selection as a function of the release list.                   *)
(***************************************************************************)
\* Entries a release list may hold: a source distribution, two linux/x86_64
\* wheels built for different interpreters, an entry named like such a wheel
\* that is no bdist_wheel, wheels of other platforms, and a wheel whose
\* platform tag is none of the six.  File names are unique within a release.
IndexPool ==
    {ReleaseFile(N("ort", "tar.gz"), "sdist", <<>>),
     ReleaseFile(N("ort-cp310-manylinux_x86_64", "whl"), "bdist_wheel", WheelBody("linux", TRUE)),
     ReleaseFile(N("ort-cp39-manylinux_x86_64", "whl"), "bdist_wheel", WheelBody("linux", FALSE)),
     ReleaseFile(N("ort-cp27-manylinux_x86_64", "whl"), "sdist", <<>>),
     ReleaseFile(N("ort-cp39-macosx_x86_64", "whl"), "bdist_wheel", WheelBody("macos", TRUE)),
     ReleaseFile(N("ort-cp39-linux_x86_64", "whl"), "bdist_wheel", WheelBody("linux", TRUE)),
     ReleaseFile(N("ort-win_amd64", "whl"), "bdist_wheel", WheelBody("windows", TRUE)),
     ReleaseFile(N("ort-macosx_arm64", "whl"), "bdist_wheel", WheelBody("macos", TRUE))}

MaxListed == 3

Range(l) == {l[i] : i \in 1..Len(l)}

\* The orders in which a release may list a set of entries.
Listings(S) == {l \in [1..Cardinality(S) -> S] : Range(l) = S}

ProjectOf(listing, has_entry) ==
    [version |-> "1.10.0", releases |-> IF has_entry THEN <<listing>> ELSE <<>>]

\* select_wheel applied to a release list and to every reordering of it.
SelectWheel ==
    /\ call.fn = None
    /\ \E S \in SUBSET IndexPool, o \in OSes, a \in Arches, has_entry \in BOOLEAN :
          /\ Cardinality(S) <= MaxListed
          /\ \E listing \in Listings(S) :
                call' = [fn |-> "select_wheel", args |-> <<listing, o, a, has_entry>>,
                         res |-> [l \in Listings(S) |->
                                     select_wheel(ProjectOf(l, has_entry), o, a)]]
    /\ UNCHANGED <<os, arch, dirs, files, net, asked, ORT_MAIN_LIB, committed, ig, dl, en, pl, rq>>

SelectNext == SelectWheel

SpecSelect == VersionsInit /\ [][SelectNext]_vars

\* The platform whose tags a file name of the pool carries, read off the
\* name by hand; <<>> for a name that carries the tags of none.
TaggedFor(filename) ==
    CASE filename.stem \in {"ort-cp310-manylinux_x86_64", "ort-cp39-manylinux_x86_64",
                            "ort-cp27-manylinux_x86_64"} -> <<"linux", "x86_64">>
      [] filename.stem = "ort-manylinux_aarch64" -> <<"linux", "aarch64">>
      [] filename.stem = "ort-cp39-macosx_x86_64" -> <<"macos", "x86_64">>
      [] filename.stem = "ort-macosx_arm64" -> <<"macos", "aarch64">>
      [] filename.stem = "ort-win_amd64" -> <<"windows", "x86_64">>
      [] filename.stem = "ort-win_arm64" -> <<"windows", "aarch64">>
      [] OTHER -> <<>>

\* C15: select_wheel returns the bdist_wheel entry of the current version
\* with the smallest file name among those whose name carries the tags of
\* the requested OS/arch, whatever the order of the release list; it fails
\* when the version has no release entry or no entry matches, as for every
\* OS/arch pair outside the six.
C15_SelectWheel ==
    call.fn = "select_wheel" =>
        LET listing == call.args[1]
            o == call.args[2]
            a == call.args[3]
            has_entry == call.args[4]
            r == call.res[listing]
            matching == {f \in Range(listing) :
                            f.packagetype = "bdist_wheel" /\ TaggedFor(f.filename) = <<o, a>>}
        IN /\ \A l \in DOMAIN call.res : call.res[l] = r
           /\ r.ok <=> (has_entry /\ matching # {})
           /\ r.ok =>
                 /\ r.val \in matching
                 /\ \A g \in matching :
                       CmpChars(NameChars(r.val.filename), NameChars(g.filename)) <= 0
           /\ <<o, a>> \notin WheelPlatforms => ~r.ok

\* Two linux/x86_64 wheels listed with the greater name first: the smaller
\* name is selected, as from every other order of the list.
C15_Witness ==
    /\ call.fn = "select_wheel"
    /\ call.args[2] = "linux" /\ call.args[3] = "x86_64"
    /\ Len(call.args[1]) = MaxListed
    /\ call.args[1][1].filename = N("ort-cp39-manylinux_x86_64", "whl")
    /\ \E i \in 2..Len(call.args[1]) :
          call.args[1][i].filename = N("ort-cp310-manylinux_x86_64", "whl")
    /\ call.res[call.args[1]].ok
    /\ call.res[call.args[1]].val.filename = N("ort-cp310-manylinux_x86_64", "whl")

(***************************************************************************)
(* Properties of ensure_model_noninteractive.                              *)
(***************************************************************************)
\* The cache path of each name of ModelInputs that is a supported model,
\* read off the name by hand; <<>> for a name that is none.
ExpectedModelPath(name) ==
    CASE name = "u2netp" -> <<FilePath(ModelsDir, N("u2netp", "onnx"))>>
      [] name = " U2Net " -> <<FilePath(ModelsDir, N("u2net", "onnx"))>>
      [] OTHER -> <<>>

\* The call of the request has returned an error: the request ended after
\* init_ort and before the model was logged.
ModelFailed(t) == rq[t].pc = "done" /\ rq[t].log = <<"plan", "ensure", "init">>

\* The call of the request has returned a ModelInstall.
ModelEnsured(t) == Len(rq[t].log) >= 4 /\ rq[t].log[4] = "model"

ModelReturned(t) == ModelFailed(t) \/ ModelEnsured(t)

\* Since the call was entered: no request, no change of the cache.
ModelUntouched(t) ==
    /\ Len(net) = rq[t].net0
    /\ files = rq[t].files0
    /\ dirs = rq[t].dirs0

\* C16: once ensure_model_noninteractive has returned: for an unknown name it
\* failed without a request or a change of the cache; for a known name whose
\* cache path existed it returned that path without a request, whatever
\* allow_download; for a known name whose path did not exist and downloads
\* disallowed it failed with the download-required error and created no
\* file; otherwise, if it returned a path, that is the cache path and the
\* file exists.
C16_EnsureModel ==
    \A t \in Threads :
        ModelReturned(t) =>
            LET expected == ExpectedModelPath(rq[t].model)
                allow_download == rq[t].entry = "run" \/ rq[t].allow
            IN IF expected = <<>>
               THEN /\ ModelFailed(t)
                    /\ rq[t].ret = Err("unsupported model")
                    /\ ModelUntouched(t)
               ELSE IF Exists(rq[t].files0, expected[1])
               THEN /\ ModelEnsured(t)
                    /\ rq[t].model_path = expected[1]
                    /\ ModelUntouched(t)
               ELSE IF ~allow_download
               THEN /\ ModelFailed(t)
                    /\ rq[t].ret = Err("download required: model")
                    /\ ModelUntouched(t)
               ELSE ModelEnsured(t) =>
                       /\ rq[t].model_path = expected[1]
                       /\ Exists(files, expected[1])
                       /\ Len(net) = rq[t].net0 + 1

\* A model asked for under a name that needs trimming and lower-casing was
\* downloaded to its cache path.
C16_Witness ==
    \E t \in Threads :
        /\ ModelEnsured(t)
        /\ rq[t].model = " U2Net "
        /\ NonInteractive(t) /\ rq[t].allow
        /\ ~Exists(rq[t].files0, rq[t].model_path)
        /\ Exists(files, rq[t].model_path)

(***************************************************************************)
(* The progress events of a download.                                      *)
(***************************************************************************)
\* C17: when a download has returned success, the events it emitted are
\* zero or more with done = false followed by exactly one with done = true,
\* the last; the downloaded count never decreases along them, and the last
\* event carries the number of bytes written to the destination.
C17_ProgressSequence ==
    \A t \in Threads :
        (dl[t].pc = "done" /\ dl[t].ret.ok) =>
            LET ev == dl[t].events
                n == Len(ev)
            IN /\ n >= 1
               /\ ev[n].done
               /\ \A i \in 1..(n - 1) : ~ev[i].done
               /\ \A i \in 1..n, j \in 1..n : i <= j => ev[i].downloaded <= ev[j].downloaded
               /\ Exists(files, dl[t].dst)
               /\ ev[n].downloaded = Len(files[dl[t].dst])

\* A successful download that reported progress during the transfer and
\* then the terminal event.
C17_Witness ==
    \E t \in Threads :
        /\ dl[t].pc = "done" /\ dl[t].ret.ok
        /\ Len(dl[t].events) >= 2
        /\ ~dl[t].events[1].done
        /\ dl[t].events[1].downloaded < dl[t].events[Len(dl[t].events)].downloaded

(***************************************************************************)
(* Session set-up as a function of what the runtime does.                  *)
(***************************************************************************)
\* predict_mask applied to a provider and the outcomes of the runtime.
PredictMask ==
    /\ call.fn = None
    /\ \E preferred_ep \in PreferredEp \cup {None}, f \in SessionOutcomes :
          call' = [fn |-> "predict_mask", args |-> <<preferred_ep, f>>,
                   res |-> predict_mask(preferred_ep, f)]
    /\ UNCHANGED <<os, arch, dirs, files, net, asked, ORT_MAIN_LIB, committed, ig, dl, en, pl, rq>>

PredictNext == PredictMask

SpecPredict == VersionsInit /\ [][PredictNext]_vars

\* C18: with a preferred provider (DirectML or Cuda), when configuring the
\* provider or committing the session with it fails, predict_mask sets out
\* to create a CPU-only session, and it fails at session set-up only if the
\* CPU-only session fails too.
C18_Fallback ==
    (/\ call.fn = "predict_mask"
     /\ call.args[1] \in PreferredEp
     /\ call.args[2].builder
     /\ ~call.args[2].configure \/ ~call.args[2].commit) =>
        /\ call.res.attempts = <<call.args[1], "Cpu">>
        /\ (call.args[2].builder2 /\ call.args[2].commit2) =>
              call.res.res \in {Ok(TRUE), Err("run inference")}

(***************************************************************************)
(* The order of the provisioning pipeline.                                 *)
(***************************************************************************)
\* The steps of a request in the order of the code; each is logged when it
\* has succeeded, predict_mask when it is entered.
PipelineOrder == <<"plan", "ensure", "init", "model", "predict_mask">>

IsPrefix(x, y) == Len(x) <= Len(y) /\ x = SubSeq(y, 1, Len(x))

\* C19: in every execution of run and of remove_background_bytes the steps
\* succeed in the order plan resolution, ensure backend, init_ort, model,
\* and predict_mask is entered only after all four: by then the library
\* ensure returned exists and is the one recorded and committed by
\* init_ort, and the model file exists.  A request in which a step failed
\* has set out to create no session.
C19_PipelineOrder ==
    \A t \in Threads :
        /\ IsPrefix(rq[t].log, PipelineOrder)
        /\ (rq[t].pc = "infer" \/ (Len(rq[t].log) = Len(PipelineOrder))) =>
              /\ IsPrefix(SubSeq(PipelineOrder, 1, Len(PipelineOrder) - 1), rq[t].log)
              /\ Exists(files, rq[t].rt)
              /\ ORT_MAIN_LIB = rq[t].rt
              /\ committed # <<>>
              /\ Exists(files, rq[t].model_path)
        /\ rq[t].attempts # <<>> => rq[t].log = PipelineOrder

\* A run of the CLI that went through the four steps and the inference.
C19_Witness ==
    \E t \in Threads :
        /\ rq[t].entry = "run"
        /\ rq[t].pc = "done"
        /\ rq[t].log = PipelineOrder
        /\ rq[t].ret.ok

(***************************************************************************)
(* The two discovery functions of the cache store on one cache.            *)
(***************************************************************************)
DiscoveryPlatforms == {<<"linux", "x86_64">>, <<"windows", "x86_64">>, <<"macos", "aarch64">>}

\* A cache in which earlier runs have left two version directories of one
\* package in any of their states.
DiscoveryInit ==
    /\ \E p \in DiscoveryPlatforms : os = p[1] /\ arch = p[2]
    /\ \E package \in Packages, kh \in ImageKinds, kl \in ImageKinds :
          LET h == Image(package, "1.10.0", kh, os, arch)
              l == Image(package, "1.9.0", kl, os, arch)
          IN /\ dirs = h.d \cup l.d
             /\ files = h.f @@ l.f
    /\ FreshProcess

\* has_any_cached_runtime(package) and find_any_installed_lib on the
\* directory of the same package, each on the cache as it is.
Discover ==
    /\ call.fn = None
    /\ \E package \in Packages :
          call' = [fn |-> "discovery", args |-> <<package>>,
                   res |-> [has |-> has_any_cached_runtime(files, dirs, os, package),
                            found |-> find_any_installed_lib(files, dirs, os, package).res]]
    /\ UNCHANGED <<os, arch, dirs, files, net, asked, ORT_MAIN_LIB, committed, ig, dl, en, pl, rq>>

DiscoveryNext == Discover

SpecDiscovery == DiscoveryInit /\ [][DiscoveryNext]_vars

\* C20: for every package and cache, has_any_cached_runtime(package) is
\* true exactly when find_any_installed_lib on the package's directory
\* returns a library path, a version directory with the archive alone
\* included.
C20_Agreement ==
    call.fn = "discovery" =>
        (call.res.has <=> (call.res.found.ok /\ call.res.found.val # NoPath))

(***************************************************************************)
(* The two resolvers on one request and one cache.                         *)
(***************************************************************************)
\* resolve_plan (with -y as the flag) and plan_noninteractive applied to the
\* same explicit device, accelerator backend and flag.
ResolveBoth ==
    /\ call.fn = None
    /\ \E device \in {"Cpu", "Gpu"}, gpu_backend \in GpuBackends, flag \in BOOLEAN,
          reply \in Replies :
          call' = [fn |-> "resolvers", args |-> <<device, gpu_backend, flag, reply>>,
                   res |-> [interactive |->
                                resolve_plan(files, dirs, os, arch, device, gpu_backend,
                                             flag, reply).res,
                            noninteractive |->
                                plan_noninteractive(files, dirs, os, arch, device,
                                                    gpu_backend, flag)]]
    /\ UNCHANGED <<os, arch, dirs, files, net, asked, ORT_MAIN_LIB, committed, ig, dl, en, pl, rq>>

ResolversNext == ResolveBoth

SpecResolvers == PlanInit /\ [][ResolversNext]_vars

\* C21: for every explicit device, accelerator backend, platform, cache and
\* flag, resolve_plan and plan_noninteractive both fail, or both return a
\* plan with the same package and the same execution provider.
C21_ResolversAgree ==
    call.fn = "resolvers" =>
        LET i == call.res.interactive
            n == call.res.noninteractive
        IN /\ i.ok <=> n.ok
           /\ i.ok =>
                 /\ i.val.runtime_package = n.val.runtime_package
                 /\ i.val.ep = n.val.ep

(***************************************************************************)
(* Requests of the GUI that follow one another in one process on Windows:  *)
(* plan_noninteractive, ensure_onnxruntime_noninteractive, init_ort.       *)
(***************************************************************************)
MaxRequests == 2

\* A request of the GUI with device Cpu or Gpu and backend Auto or Directml;
\* what it asks for and what the cache holds then are kept for the properties.
ToggleStart(t) ==
    /\ rq[t].pc = "idle"
    /\ rq[t].entry = None
    /\ rq[t].n < MaxRequests
    /\ \E device \in {"Cpu", "Gpu"}, gpu_backend \in {"Auto", "Directml"}, allow \in BOOLEAN :
          rq' = [rq EXCEPT ![t] =
                    [RqIdle EXCEPT
                        !.pc = "plan", !.entry = "remove_background_bytes",
                        !.model = "u2netp", !.device = device, !.gpu_backend = gpu_backend,
                        !.allow = allow, !.n = rq[t].n + 1,
                        !.history =
                            Append(rq[t].history,
                                   [device |-> device, gpu_backend |-> gpu_backend,
                                    allow |-> allow,
                                    directml |-> has_any_cached_runtime(
                                                    files, dirs, os, "onnxruntime-directml"),
                                    cuda |-> has_any_cached_runtime(
                                                files, dirs, os, "onnxruntime-gpu")])]]
    /\ UNCHANGED <<dirs, files, net, asked, ORT_MAIN_LIB, committed, ig, dl, en>>
    /\ RqFrame

\* The request is over (it failed, or init_ort has returned Ok and what
\* follows does not touch the backend); the process waits for the next one.
ToggleAgain(t) ==
    /\ rq[t].pc \in {"done", "model"}
    /\ rq' = [rq EXCEPT ![t] = [RqIdle EXCEPT !.n = rq[t].n, !.history = rq[t].history]]
    /\ UNCHANGED <<dirs, files, net, asked, ORT_MAIN_LIB, committed, ig, dl, en>>
    /\ RqFrame

\* A fresh process on Windows over a cache in which each package is
\* installed or absent.
ToggleInit ==
    /\ os = "windows"
    /\ arch = "x86_64"
    /\ \E cached \in SUBSET Packages :
          LET img == [pk \in Packages |->
                         Image(pk, "1.10.0", IF pk \in cached THEN "installed" ELSE "none",
                               os, arch)]
          IN /\ dirs = UNION {img[pk].d : pk \in Packages}
             /\ files = img["onnxruntime"].f @@ img["onnxruntime-directml"].f
                           @@ img["onnxruntime-gpu"].f
    /\ FreshProcess

ToggleNext ==
    \/ ToggleStart(1)
    \/ RqPlan(1)
    \/ RqEnsure(1)
    \/ rq[1].pc = "ensuring" /\ EnsureStep(1)
    \/ rq[1].pc = "ensuring" /\ DlStep(1)
    \/ RqEnsured(1)
    \/ rq[1].pc = "init" /\ RqInitStep(1)
    \/ RqInited(1)
    \/ ToggleAgain(1)

SpecToggle == ToggleInit /\ [][ToggleNext]_vars

\* C22 as stated: whatever the cache and the flags, init_ort never returns
\* the restart-required error to such a request.
C22_Original ==
    \A t \in Threads : ig[t].ret # Err(RestartRequired)

\* The request resolves to onnxruntime-directml: downloads are permitted or
\* the package is cached, and for Gpu with backend Auto the CUDA package is
\* not the only accelerated one in the cache.
PinnedToDirectml(h) ==
    /\ h.allow \/ h.directml
    /\ (h.device = "Gpu" /\ h.gpu_backend = "Auto") => (h.directml \/ ~h.cuda)

\* C22, amended: while every request of the process so far permitted
\* downloads or found onnxruntime-directml cached, and no Gpu/Auto request
\* found onnxruntime-gpu cached without onnxruntime-directml, init_ort has
\* not returned the restart-required error.
C22_NoRestart ==
    \A t \in Threads :
        (\A i \in 1..Len(rq[t].history) : PinnedToDirectml(rq[t].history[i])) =>
            ig[t].ret # Err(RestartRequired)

\* A Cpu request and then a Gpu request, both on the library of
\* onnxruntime-directml that the first one downloaded: the second init_ort
\* found the path recorded and returned Ok.
C22_Witness ==
    \E t \in Threads :
        /\ Len(rq[t].history) = 2
        /\ rq[t].history[1].device = "Cpu" /\ ~rq[t].history[1].directml
        /\ rq[t].history[2].device = "Gpu"
        /\ rq[t].pc = "init"
        /\ ig[t].pc = "done" /\ ig[t].ret.ok
        /\ ig[t].seen = ig[t].lib /\ ig[t].lib # NoPath

(***************************************************************************)
(* Two requests of the GUI download the same artifact at the same time     *)
(* (lib.rs runs each request on a blocking worker thread).                 *)
(***************************************************************************)
\* What a caller passes for a destination: the wheel with the SHA-256 of
\* the index (runtime.rs), the model without digests (model.rs).
DigestFor(dst) ==
    IF dst = DlWheelDst THEN <<Hex(Sha256Of(WheelBody("linux", TRUE)), "lower")>> ELSE <<>>

\* A worker finds the destination missing and calls the downloader; every
\* worker of the run downloads to the same destination.
ConcurrentStart(t) ==
    /\ dl[t].pc = "idle"
    /\ dl[t].n = 0
    /\ \E dst \in DlDsts :
          /\ \A u \in Threads : dl[u].dst \in {NoPath, dst}
          /\ ~Exists(files, dst)
          /\ DlEnter(t, dst, DigestFor(dst), <<>>)
    /\ UNCHANGED <<dirs, files, net>>
    /\ DlFrame

ConcurrentNext == \E t \in Threads : ConcurrentStart(t) \/ DlStep(t) \/ DlReturn(t)

SpecConcurrent == DownloadInit /\ [][ConcurrentNext]_vars

\* C23: with two downloaders of one destination, in every interleaving a
\* file at the destination holds the complete body one of them received,
\* no downloader is still in its write loop with its open file linked at
\* the destination, and no downloader reaches its rename with the temp
\* file gone (so that the rename must fail).
C23_ConcurrentSafe ==
    /\ \A dst \in DlDsts :
          Exists(files, dst) =>
              \E t \in Threads : dl[t].dst = dst /\ dl[t].n > 0 /\ files[dst] = dl[t].body
    /\ \A t \in Threads : ~(dl[t].pc = "read" /\ dl[t].fd = "dst")
    /\ \A t \in Threads : dl[t].pc = "rename" => Exists(files, TmpOf(dl[t].dst))

\* The three parts of C23 one by one.
C23_CompleteBody ==
    \A dst \in DlDsts :
        Exists(files, dst) =>
            \E t \in Threads : dl[t].dst = dst /\ dl[t].n > 0 /\ files[dst] = dl[t].body
C23_NoWriterAtDst == \A t \in Threads : ~(dl[t].pc = "read" /\ dl[t].fd = "dst")
C23_TmpAtRename == \A t \in Threads : dl[t].pc = "rename" => Exists(files, TmpOf(dl[t].dst))

(***************************************************************************)
(* The recorded backend and the libraries committed into the process.      *)
(***************************************************************************)
\* C24: in every state reached by interleaved init_ort calls (failing loads
\* included), outside the step between a call's commit and its set the
\* recorded path is empty exactly when no library has been committed, and a
\* recorded path is the path of the only library committed.
C24_RecordedIsLoaded ==
    /\ (\A t \in Threads : ig[t].pc # "set") =>
           ((ORT_MAIN_LIB = NoPath) <=> (committed = <<>>))
    /\ ORT_MAIN_LIB # NoPath => committed = <<ORT_MAIN_LIB>>

(***************************************************************************)
(* find_any_installed_lib on caches with two version directories.          *)
(***************************************************************************)
NewestKinds == ImageKinds \cup {"corrupt"}

NewestInit ==
    /\ \E p \in DiscoveryPlatforms : os = p[1] /\ arch = p[2]
    /\ \E package \in Packages, kh \in NewestKinds, kl \in NewestKinds :
          LET h == Image(package, "1.10.0", kh, os, arch)
              l == Image(package, "1.9.0", kl, os, arch)
          IN /\ dirs = h.d \cup l.d
             /\ files = h.f @@ l.f
    /\ FreshProcess

\* A version directory is usable: lib/ has a main library, or the
\* directory's archive opens and holds one.
Usable(fs, ds, o, vdir) ==
    \/ find_main_lib(fs, ds, o, LibDir(vdir)) # NoPath
    \/ LET wheel == find_any_wheel(fs, ds, vdir) IN
       /\ wheel # NoPath
       /\ ZipEntries(fs[wheel]).ok
       /\ \E i \in DOMAIN ZipEntries(fs[wheel]).val :
              LET e == ZipEntries(fs[wheel]).val[i] IN
              Relevant(e) /\ e.file \in MainPreferNames \cup MainFallbackNames

\* The call on the directory of a package; the result is kept with what
\* the cache held before it.
FindInstalled ==
    /\ call.fn = None
    /\ \E package \in Packages :
          LET x == find_any_installed_lib(files, dirs, os, package)
              usable == {v \in VersionNames :
                           VerDir(package, v) \in dirs /\ Usable(files, dirs, os, VerDir(package, v))}
          IN /\ call' = [fn |-> "find_any_installed_lib", args |-> <<package>>,
                         res |-> [found |-> x.res, usable |-> usable]]
             /\ files' = x.fs
             /\ dirs' = x.ds
    /\ UNCHANGED <<os, arch, net, asked, ORT_MAIN_LIB, committed, ig, dl, en, pl, rq>>

NewestNext == FindInstalled

SpecNewest == NewestInit /\ [][NewestNext]_vars

\* The highest of a set of versions by the version comparator.
Newest(vs) == CHOOSE v \in vs : \A w \in vs : cmp_versions(w, v) <= 0

\* C25: find_any_installed_lib returns the main library of the highest
\* usable version directory, whatever the higher directories hold (no
\* archive, an archive without a main library, an archive that cannot be
\* opened), and no library when no directory is usable.
C25_NewestUsable ==
    call.fn = "find_any_installed_lib" =>
        LET package == call.args[1]
            usable == call.res.usable
        IN /\ call.res.found.ok
           /\ IF usable = {} THEN call.res.found.val = NoPath
              ELSE /\ call.res.found.val # NoPath
                   /\ call.res.found.val[1] = LibDir(VerDir(package, Newest(usable)))
                   /\ Exists(files, call.res.found.val)

(***************************************************************************)
(* A run that was killed inside extract_ort_libs_from_wheel, and the next  *)
(* run on the cache it left.                                               *)
(***************************************************************************)
\* The files left by an extraction killed at entry k: the entries before k
\* are done; the file of entry k, if the loop gets to write it, was not yet
\* created (cut < 0), or holds the first cut bytes of the entry (created by
\* File::create, then filled by write_all).
InterruptedExtract(fs, wheel_path, lib_dir, k, cut) ==
    LET entries == ZipEntries(fs[wheel_path]).val
        before == ExtractEntries(fs, lib_dir, SubSeq(entries, 1, k - 1), 1)
        e == entries[k]
        dst == FilePath(lib_dir, e.file)
    IN IF Relevant(e) /\ ~Exists(before, dst) /\ cut >= 0
       THEN before @@ OneFile(dst, SubSeq(e.data, 1, cut))
       ELSE before

\* Version 1.10.0 of a package with its archive and the lib/ of a killed
\* extraction; version 1.9.0 absent or installed.
RecoverInit ==
    /\ \E p \in DiscoveryPlatforms : os = p[1] /\ arch = p[2]
    /\ \E package \in Packages, kl \in {"none", "installed"} :
          LET h == Image(package, "1.10.0", "archive", os, arch)
              l == Image(package, "1.9.0", kl, os, arch)
              vdir == VerDir(package, "1.10.0")
              wheel == FilePath(vdir, WheelName(normalize_os(os), arch))
              entries == ZipEntries(h.f[wheel]).val
          IN \E k \in DOMAIN entries :
                \E cut \in -1..(Len(entries[k].data) - 1) :
                   /\ dirs = h.d \cup l.d \cup {LibDir(vdir)}
                   /\ files = InterruptedExtract(h.f, wheel, LibDir(vdir), k, cut) @@ l.f
    /\ FreshProcess

\* The next run looks the package up.
Recover ==
    /\ call.fn = None
    /\ \E package \in Packages :
          LET x == find_any_installed_lib(files, dirs, os, package) IN
          /\ VerDir(package, "1.10.0") \in dirs
          /\ call' = [fn |-> "recover", args |-> <<package>>, res |-> x.res]
          /\ files' = x.fs
          /\ dirs' = x.ds
    /\ UNCHANGED <<os, arch, net, asked, ORT_MAIN_LIB, committed, ig, dl, en, pl, rq>>

RecoverNext == Recover

SpecRecover == RecoverInit /\ [][RecoverNext]_vars

\* C26: after the call on a cache whose newest version has its archive and
\* the lib/ of an interrupted extraction, lib/ holds every relevant library
\* of the archive with its complete content, and the returned main library
\* is one of them.
C26_Recovered ==
    call.fn = "recover" =>
        LET vdir == VerDir(call.args[1], "1.10.0")
            wheel == FilePath(vdir, WheelName(normalize_os(os), arch))
            entries == ZipEntries(files[wheel]).val
        IN /\ call.res.ok
           /\ call.res.val # NoPath
           /\ call.res.val[1] = LibDir(vdir)
           /\ \A i \in DOMAIN entries :
                 Relevant(entries[i]) =>
                     /\ Exists(files, FilePath(LibDir(vdir), entries[i].file))
                     /\ files[FilePath(LibDir(vdir), entries[i].file)] = entries[i].data

\* The parts of C26: the main library returned is complete; the other
\* libraries are there and complete.
C26_MainComplete ==
    call.fn = "recover" =>
        /\ call.res.ok /\ call.res.val # NoPath
        /\ files[call.res.val] = MainEntry(normalize_os(os)).data
C26_AuxComplete ==
    call.fn = "recover" =>
        LET aux == FilePath(LibDir(VerDir(call.args[1], "1.10.0")), AuxName(normalize_os(os))) IN
        Exists(files, aux) /\ files[aux] = AuxEntry(normalize_os(os)).data

(***************************************************************************)
(* extract_ort_libs_from_wheel run twice on one archive.                   *)
(***************************************************************************)
ExtractVdir == VerDir("onnxruntime", "1.10.0")
ExtractWheel == FilePath(ExtractVdir, WheelName(normalize_os(os), arch))

\* The archive of a version directory (a wheel with the main library, one
\* without, one with two entries of one basename), and a lib/ that is
\* missing or already holds some of the library files, with what an
\* interrupted run wrote of them.
ExtractInit ==
    /\ \E p \in WheelPlatforms : os = p[1] /\ arch = p[2]
    /\ \E body \in {WheelBody(normalize_os(os), TRUE), WheelBody(normalize_os(os), FALSE),
                     TwinBody(normalize_os(os))},
          pre \in SUBSET {MainEntry(normalize_os(os)), AuxEntry(normalize_os(os))} :
          /\ dirs = {PkgDir("onnxruntime"), ExtractVdir}
                      \cup (IF pre = {} THEN {} ELSE {LibDir(ExtractVdir)})
          /\ files = OneFile(ExtractWheel, body)
                       @@ [q \in {FilePath(LibDir(ExtractVdir), e.file) : e \in pre} |->
                              IF q[2] = MainName(normalize_os(os)) THEN <<1>> ELSE <<>>]
    /\ FreshProcess

\* One run of the extractor; the call keeps the files it started from.
Extract ==
    /\ call.fn \in {None, "extract"}
    /\ call.fn = "extract" => call.args[1] = 1
    /\ LET x == extract_ort_libs_from_wheel(files, dirs, ExtractWheel, LibDir(ExtractVdir)) IN
       /\ call' = [fn |-> "extract",
                   args |-> <<(IF call.fn = None THEN 1 ELSE 2), files>>,
                   res |-> x.res]
       /\ files' = x.fs
       /\ dirs' = x.ds
    /\ UNCHANGED <<os, arch, net, asked, ORT_MAIN_LIB, committed, ig, dl, en, pl, rq>>

ExtractNext == Extract

SpecExtract == ExtractInit /\ [][ExtractNext]_vars

\* The library files an archive's extraction can write, with the content
\* of the first entry of each basename: the entries that are no directories,
\* lie below a capi/ directory and have a shared-library name.
ArchiveLibs(body, o) ==
    LET lib == LibDir(ExtractVdir)
        main == OneFile(FilePath(lib, MainName(o)), <<1, 1>>)
        aux == OneFile(FilePath(lib, AuxName(o)), <<2>>)
    IN IF body = WheelBody(o, FALSE) THEN aux ELSE main @@ aux

\* C27: a run of the extractor leaves every file that existed as it was,
\* adds exactly the missing library files of the archive (each under its
\* basename in lib/, with the content of the first entry of that basename),
\* and a second run on the same archive changes nothing.
C27_IdempotentAdditive ==
    call.fn = "extract" =>
        LET before == call.args[2]
            libs == ArchiveLibs(files[ExtractWheel], normalize_os(os))
        IN /\ call.res.ok
           /\ \A p \in DOMAIN before : Exists(files, p) /\ files[p] = before[p]
           /\ DOMAIN files = DOMAIN before \cup DOMAIN libs
           /\ \A p \in DOMAIN libs \ DOMAIN before : files[p] = libs[p]
           /\ call.args[1] = 2 => files = before

\* A second run on the archive with two entries of one basename, in a lib/
\* that held a partly written auxiliary library before the first run.
C27_Witness ==
    /\ call.fn = "extract"
    /\ call.args[1] = 2
    /\ files[ExtractWheel] = TwinBody(normalize_os(os))
    /\ files[FilePath(LibDir(ExtractVdir), MainName(normalize_os(os)))] = <<1, 1>>
    /\ files[FilePath(LibDir(ExtractVdir), AuxName(normalize_os(os)))] = <<>>

(***************************************************************************)
(* An installed lib/ under later calls of the ensure functions.            *)
(***************************************************************************)
LibFilesOf(fs, package, v) ==
    [p \in FilesIn(fs, LibDir(VerDir(package, v))) |-> fs[p]]
VersionDirsOf(ds, package) == {v \in VersionNames : VerDir(package, v) \in ds}

\* C28: once find_main_lib finds a main library in a version directory's
\* lib/, no step of a call of ensure_onnxruntime or
\* ensure_onnxruntime_noninteractive for that package (its look-ups of the
\* cache included) creates, changes or deletes a file of that lib/, and
\* none creates a version directory of the package.
C28_InstalledFrozen ==
    [][\A t \in Threads, v \in VersionNames :
          find_main_lib(files, dirs, os, LibDir(VerDir(PackageOf(t), v))) # NoPath =>
              /\ LibFilesOf(files', PackageOf(t), v) = LibFilesOf(files, PackageOf(t), v)
              /\ VersionDirsOf(dirs', PackageOf(t)) = VersionDirsOf(dirs, PackageOf(t))]_vars

\* A second call has returned the library of version 1.9.0, installed
\* before the first, next to a version directory 1.10.0 without an archive.
C28_Witness ==
    /\ en[1].pc = "done"
    /\ en[1].n = 2
    /\ en[1].ret.ok
    /\ en[1].ret.val[1] = LibDir(VerDir(PackageOf(1), "1.9.0"))
    /\ VerDir(PackageOf(1), "1.10.0") \in dirs
    /\ find_main_lib(files, dirs, os, LibDir(VerDir(PackageOf(1), "1.10.0"))) = NoPath

(***************************************************************************)
(* The questions of the interactive flow (main.rs: resolve_plan, then      *)
(* ensure_onnxruntime).                                                    *)
(***************************************************************************)
Cancelled == Err("runtime download cancelled by user")

\* The user answered yes to the GPU question of resolve_plan.
AcceptedGpu(t) == rq[t].reply \in Answers /\ TrimLower(rq[t].reply) \in {"y", "yes"}

\* C29: in a run of the command line, when -y was passed or the user
\* accepted the GPU question of resolve_plan, ensure_onnxruntime asks
\* nothing; and when ensure_onnxruntime returns the cancelled-by-user error
\* it has asked its question, has made no request but the one to the package
\* index, and no download has been entered or has left a file.
C29_ConsentOnce ==
    \A t \in Threads :
        (rq[t].entry = "run" /\ rq[t].pc = "ensuring") =>
            /\ (rq[t].allow \/ AcceptedGpu(t)) =>
                   (asked = en[t].asked0 /\ en[t].ret # Cancelled)
            /\ en[t].ret = Cancelled =>
                   /\ asked = en[t].asked0 + 1
                   /\ Len(net) = en[t].net0 + 1
                   /\ dl[t].pc = "idle"
                   /\ files = en[t].files0

\* The user accepted the GPU question, and the download of the GPU backend
\* is running with that one question asked.
C29_Witness ==
    \E t \in Threads :
        /\ rq[t].entry = "run"
        /\ rq[t].pc = "ensuring"
        /\ ~rq[t].allow
        /\ AcceptedGpu(t)
        /\ en[t].pc = "downloading"
        /\ dl[t].pc = "read"
        /\ asked = 1

\* The user declined the question of ensure_onnxruntime.
C29_Declined ==
    \E t \in Threads :
        /\ rq[t].entry = "run"
        /\ rq[t].pc = "ensuring"
        /\ en[t].ret = Cancelled

(***************************************************************************)
(* The completion event and the result of the download.                    *)
(***************************************************************************)
\* C30: a download that has returned an error (status, read or write
\* error, digest mismatch, failed rename) has emitted no event with
\* done = true.
C30_DoneMeansSuccess ==
    \A t \in Threads :
        (dl[t].pc = "done" /\ ~dl[t].ret.ok) =>
            \A i \in 1..Len(dl[t].events) : ~dl[t].events[i].done

\* The errors that end the call before the body has been read to its end
\* come without a completion event.
C30_EarlyErrors ==
    \A t \in Threads :
        (dl[t].pc = "done" /\ ~dl[t].ret.ok
            /\ dl[t].ret \notin MismatchErrors \cup {Err("rename")}) =>
            \A i \in 1..Len(dl[t].events) : ~dl[t].events[i].done

(***************************************************************************)
(* Temp files an earlier download left behind.                             *)
(***************************************************************************)
TempsIn(fs, package, v) == {p \in FilesIn(fs, VerDir(package, v)) : p[2].ext = "part"}

\* All the cache holds of a package is what failed or killed downloads
\* left: a temp file, no archive and nothing in lib/.
LeftoverOnly(fs, package) ==
    /\ \E v \in VersionNames : TempsIn(fs, package, v) # {}
    /\ \A v \in VersionNames :
          ArchivesIn(fs, package, v) = {} /\ FilesIn(fs, LibDir(VerDir(package, v))) = {}

\* The complete archives the index of a platform can serve.
CompleteBodies(o) == {WheelBody(o, TRUE), WheelBody(o, FALSE)}

\* C31: find_any_wheel never returns a temp file; a call of an ensure
\* function on a cache that holds only leftover temp files of its package
\* finds nothing installed, never fails on the leftover as on an archive,
\* and gets to the extraction or to success only after the index request and
\* the request of the archive, with a complete body at the destination;
\* and from File::create on, the temp file of a download holds exactly the
\* bytes that download wrote.
C31_LeftoversHarmless ==
    /\ \A package \in Packages, v \in VersionNames :
          LET w == find_any_wheel(files, dirs, VerDir(package, v)) IN
          w # NoPath => w[2].ext = "whl"
    /\ \A t \in Threads :
          (en[t].pc # "idle" /\ LeftoverOnly(en[t].files0, PackageOf(t))) =>
              /\ en[t].ret # Err("open zip archive")
              /\ (en[t].pc = "extract" \/ (en[t].pc = "done" /\ en[t].ret.ok)) =>
                     /\ Len(RequestsOf(t)) >= 2
                     /\ Exists(files, en[t].wheel_path)
                     /\ files[en[t].wheel_path] \in CompleteBodies(normalize_os(os))
    /\ \A t \in Threads :
          dl[t].pc \in OpenPcs =>
              /\ Exists(files, TmpOf(dl[t].dst))
              /\ files[TmpOf(dl[t].dst)] = SubSeq(dl[t].body, 1, dl[t].pos)

\* A call that found a leftover temp file at the very destination of its
\* download has installed the backend from a fresh download.
C31_Witness ==
    \E t \in Threads :
        /\ en[t].pc = "done"
        /\ en[t].ret.ok
        /\ LeftoverOnly(en[t].files0, PackageOf(t))
        /\ Exists(en[t].files0, TmpOf(en[t].wheel_path))
        /\ en[t].files0[TmpOf(en[t].wheel_path)] # <<>>
        /\ ~Exists(files, TmpOf(en[t].wheel_path))
        /\ files[en[t].wheel_path] = WheelBody(normalize_os(os), TRUE)

(***************************************************************************)
(* The fields of a plan against each other.                                *)
(***************************************************************************)
\* The user was asked the GPU question of resolve_plan and answered yes.
AcceptedPrompt ==
    pl.fn = "resolve_plan" /\ pl.asked = 1 /\ TrimLower(pl.reply) \in {"y", "yes"}

\* C32: in every plan plan_noninteractive or resolve_plan returns, provider
\* DirectML comes with package onnxruntime-directml, provider CUDA with
\* package onnxruntime-gpu, package onnxruntime with no provider, a CPU
\* device with no provider, and allow_download is the caller's flag, or true
\* when the user accepted the GPU question.
C32_PlanConsistency ==
    (pl.fn # None /\ pl.res.ok) =>
        LET p == pl.res.val IN
        /\ p.ep = "DirectML" => p.runtime_package = "onnxruntime-directml"
        /\ p.ep = "Cuda" => p.runtime_package = "onnxruntime-gpu"
        /\ p.runtime_package = "onnxruntime" => p.ep = None
        /\ pl.device = "Cpu" => p.ep = None
        /\ p.allow_download = (pl.yes \/ AcceptedPrompt)

\* Without -y the user accepted the GPU question and got the DirectML plan
\* with downloads permitted.
C32_Witness ==
    /\ pl.fn = "resolve_plan"
    /\ ~pl.yes
    /\ AcceptedPrompt
    /\ pl.res.ok
    /\ pl.res.val = Plan("onnxruntime-directml", "DirectML", TRUE)
====
